---- MODULE Spec2Model ----
(***************************************************************************)
(* Model of the moodboard collection store (jackwilsdon/moodboard).        *)
(*                                                                         *)
(* Two backends implement moodboard.Store: the volatile one                *)
(* (server/memory/store.go) and the durable one (server/file/store.go).    *)
(* cmd/moodboard/main.go picks one of them at start-up; the model picks    *)
(* the backend in Init and then runs that backend's operations.  Every     *)
(* operation holds the store's mutex from its first to its last statement, *)
(* so one action is one whole call.                                        *)
(*                                                                         *)
(* The repository holds several revisions of the two stores.  The model    *)
(* follows the revision with MoveBefore/MoveAfter (memory/store.go from    *)
(* line 517, file/store.go) and keeps the x, y, width of moodboard.Item    *)
(* and Update from the item-record revision (memory/store.go 370-515 and   *)
(* its durable counterpart), whose other operations are the same code.     *)
(*                                                                         *)
(* prev, last and uploaded record what a caller could observe: the store   *)
(* as the last call found it, that call's arguments and result, and the    *)
(* bytes given to each Create.  Return is the caller taking the result.    *)
(*                                                                         *)
(* Go indexes are kept 0-based, as in the source; At(s, i) reads s[i].     *)
(* Coordinates are tenths (0, 5, 10 stand for 0, 0.5, 1).                  *)
(* A file is a sequence of one-character strings.                          *)
(***************************************************************************)
EXTENDS Integers, Sequences, FiniteSets, TLC

VARIABLES backend,   \* "memory" or "file": the store main() constructed
          mitems,    \* memory.Store.items: sequence of [item, image]
          mnil,      \* TRUE while memory.Store.items is the nil slice
          fdir,      \* file.Store: the directory s.path exists
          files,     \* file.Store: the files in s.path, name -> content
          nextId,    \* number of IDs uuid.New() has handed out
          faulted,   \* a storage fault has been injected (at most one per run)
          uploaded,  \* history: the image bytes each Create was given, by ID
          prev,      \* the store as it was when the last call started
          last,      \* the last call: operation, arguments, result
          mutex,     \* Store.mutex: the goroutines holding it, to write and to read
          calls,     \* the call each goroutine is in and how far it has got
          serial,    \* history: the mutations applied one by one, in lock order
          stable,    \* history: serial when the last mutation returned
          seen,      \* history: the collections that stood when each All() read
          twin,      \* side by side: the volatile store's result of the last call
          held,      \* a list All() returned and its caller still holds
          http       \* the last HTTP request and the handler's response to it

\* the variables of the runs with several goroutines
conc == <<mutex, calls, serial, stable, seen>>

vars == <<backend, mitems, mnil, fdir, files, nextId, faulted, uploaded, prev, last,
          mutex, calls, serial, stable, seen, twin, held, http>>

(***************************************************************************)
(* Bounds and input sets.                                                  *)
(***************************************************************************)
MaxCreates == 3
\* Creates in runs that vary the image bytes
MaxImageCreates == 2
\* Creates in runs with a storage fault
MaxFaultCreates == 2
\* goroutines calling the store at the same time, and Creates in their runs
MaxGoroutines == 2
MaxConcCreates == 2
\* Creates in runs of both backends side by side
MaxBothCreates == 3
\* Creates in runs where the caller keeps a list
MaxCopyCreates == 2
\* Creates in runs of the HTTP handler
MaxHttpCreates == 2
\* Creates in runs of the HTTP handler that updates
MaxUpdateCreates == 1
\* length of the lists on which every move is tried
MaxMoveLen == 5
\* the bytes validateContentType reads for sniffing: 512, scaled down
SniffLen == 2
\* Creates in runs that are checked for progress
MaxLiveCreates == 1

\* the IDs uuid.New() hands out, in order
IdSeq == <<"a", "b", "c", "d", "e", "f">>
IndexName == "index.json"
\* IDs a caller may name: the IDs uuid.New() hands out, before and after it
\* does; for GetImage also the name of the index document.
CallIds == {IdSeq[i] : i \in 1..MaxCreates}
ImageIds == CallIds \cup {IndexName}

EmptyImage == << >>
Images == {EmptyImage, <<"x", "y">>}
Points == {[x |-> 0, y |-> 0, width |-> 0], [x |-> 5, y |-> 10, width |-> 7]}

Min(a, b) == IF a < b THEN a ELSE b
At(s, i) == s[i + 1]
Ids(items) == [i \in 1..Len(items) |-> items[i].id]
NoDup(s) == \A i, j \in 1..Len(s) : s[i] = s[j] => i = j

\* the directory s.path as a map from file name to content
NoFiles == [n \in {} |-> << >>]
Put(fs, name, content) ==
  [n \in DOMAIN fs \cup {name} |-> IF n = name THEN content ELSE fs[n]]
\* os.Remove(path.Join(s.path, name)); the error is ignored
Remove(fs, name) == [n \in DOMAIN fs \ {name} |-> fs[n]]

(***************************************************************************)
(* moodboard.Item                                                          *)
(***************************************************************************)
Item(id, x, y, width) == [x |-> x, y |-> y, width |-> width, id |-> id]
\* NewItem with a position other than the zero value
NewItemPlaced(id) == Item(id, 5, 0, 0)
\* moodboard.Item{ID: id}: the other fields have Go's zero value
NewItem(id) == Item(id, 0, 0, 0)

(***************************************************************************)
(* The slice algorithms shared (as duplicated code) by both backends.      *)
(***************************************************************************)
\* GoCopy with the copy left out: the elements between index and target stay
GoCopyNothing(s, dstLo, srcLo, srcHi) == s

\* copy(s[dstLo:], s[srcLo:srcHi])
GoCopy(s, dstLo, srcLo, srcHi) ==
  LET n == Min(Len(s) - dstLo, srcHi - srcLo)
  IN [j \in 1..Len(s) |->
        IF j - 1 >= dstLo /\ j - 1 < dstLo + n
        THEN s[(j - 1 - dstLo) + srcLo + 1]
        ELSE s[j]]

\* FindIndexes with target starting at 0 instead of -1
RECURSIVE FindIndexesDefaultZero(_, _, _, _, _, _)
FindIndexesDefaultZero(ids, id, targetID, i, index, target) ==
  LET tgt == IF target = -1 THEN 0 ELSE target
  IN IF i >= Len(ids)
     THEN [index |-> index, target |-> tgt]
     ELSE LET index2 == IF At(ids, i) = id THEN i ELSE index
              target2 == IF At(ids, i) = targetID THEN i ELSE tgt
          IN IF index2 # -1 /\ target2 # -1
             THEN [index |-> index2, target |-> target2]
             ELSE FindIndexesDefaultZero(ids, id, targetID, i + 1, index2, target2)

\* the index-finding loop of move: ids is the list of IDs, i the loop counter
RECURSIVE FindIndexes(_, _, _, _, _, _)
FindIndexes(ids, id, targetID, i, index, target) ==
  IF i >= Len(ids)
  THEN [index |-> index, target |-> target]
  ELSE LET index2 == IF At(ids, i) = id THEN i ELSE index
           target2 == IF At(ids, i) = targetID THEN i ELSE target
       IN IF index2 # -1 /\ target2 # -1
          THEN [index |-> index2, target |-> target2]
          ELSE FindIndexes(ids, id, targetID, i + 1, index2, target2)

\* AdjustTarget without the step back for a move before a later item
AdjustTargetNoStepBack(index, target, before) ==
  IF index < target
  THEN target
  ELSE IF index > target
       THEN (IF ~before THEN target + 1 ELSE target)
       ELSE target

\* AdjustTarget with `index <= target` for `index < target`
AdjustTargetSelf(index, target, before) ==
  IF index <= target
  THEN (IF before THEN target - 1 ELSE target)
  ELSE IF ~before THEN target + 1 ELSE target

\* the target after the before/after adjustment
AdjustTarget(index, target, before) ==
  IF index < target
  THEN (IF before THEN target - 1 ELSE target)
  ELSE IF index > target
       THEN (IF ~before THEN target + 1 ELSE target)
       ELSE target

\* every slice expression and index expression of move is within the list
MoveInBounds(n, index, target, before) ==
  LET t == AdjustTarget(index, target, before)
  IN /\ index >= 0 /\ index < n
     /\ index < target => (index <= n /\ index + 1 <= t + 1 /\ t + 1 <= n)
     /\ index > target => (t + 1 <= n /\ t <= index /\ index <= n /\ t >= 0)
     /\ t >= 0 /\ t < n

\* MoveItems as an exchange of the items at index and target
MoveItemsSwap(items, index, target, before) ==
  [items EXCEPT ![index + 1] = At(items, target), ![target + 1] = At(items, index)]

\* the list after the copy() of move and before `items[target] = item`; t is
\* the adjusted target
ShiftItems(items, index, target, t) ==
  IF index < target
  THEN GoCopy(items, index, index + 1, t + 1)
  ELSE IF index > target
       THEN GoCopy(items, t + 1, t, index)
       ELSE items

\* the rotation of move, from `item := items[index]` to `items[target] = item`
MoveItems(items, index, target, before) ==
  [ShiftItems(items, index, target, AdjustTarget(index, target, before))
     EXCEPT ![AdjustTarget(index, target, before) + 1] = At(items, index)]

\* RemainingItems with a loop that stops at the first match
RECURSIVE RemainingItemsBreak(_, _)
RemainingItemsBreak(items, id) ==
  IF items = << >> THEN << >>
  ELSE IF Head(items).id # id
       THEN <<Head(items)>> \o RemainingItemsBreak(Tail(items), id)
       ELSE << >>

\* the filtering loop of Delete
RECURSIVE RemainingItems(_, _)
RemainingItems(items, id) ==
  IF items = << >> THEN << >>
  ELSE IF Head(items).id # id
       THEN <<Head(items)>> \o RemainingItems(Tail(items), id)
       ELSE RemainingItems(Tail(items), id)

\* ReplaceFirst that adds the item when no record has its ID
RECURSIVE ReplaceFirstOrAppend(_, _, _)
ReplaceFirstOrAppend(items, item, i) ==
  IF i >= Len(items)
  THEN [items |-> Append(items, item), exists |-> TRUE]
  ELSE IF At(items, i).id = item.id
       THEN [items |-> [items EXCEPT ![i + 1] = item], exists |-> TRUE]
       ELSE ReplaceFirstOrAppend(items, item, i + 1)

\* ReplaceFirst that keeps the width of the stored record
RECURSIVE ReplaceFirstKeepsWidth(_, _, _)
ReplaceFirstKeepsWidth(items, item, i) ==
  IF i >= Len(items)
  THEN [items |-> items, exists |-> FALSE]
  ELSE IF At(items, i).id = item.id
       THEN [items |-> [items EXCEPT ![i + 1] =
                          Item(item.id, item.x, item.y, At(items, i).width)],
             exists |-> TRUE]
       ELSE ReplaceFirstKeepsWidth(items, item, i + 1)

\* the replace-first-match loop of Update; i is the loop counter
RECURSIVE ReplaceFirst(_, _, _)
ReplaceFirst(items, item, i) ==
  IF i >= Len(items)
  THEN [items |-> items, exists |-> FALSE]
  ELSE IF At(items, i).id = item.id
       THEN [items |-> [items EXCEPT ![i + 1] = item], exists |-> TRUE]
       ELSE ReplaceFirst(items, item, i + 1)

(***************************************************************************)
(* Bookkeeping of the last call.                                           *)
(***************************************************************************)
NoPoint == [x |-> 0, y |-> 0, width |-> 0]
Call(op, id, ref, pos, img, fault, res, out, outNil) ==
  [id |-> id, op |-> op, ref |-> ref, pos |-> pos, img |-> img,
   fault |-> fault, res |-> res, out |-> out, outNil |-> outNil]
Idle == Call("idle", "", "", NoPoint, << >>, "none", "ok", << >>, FALSE)
\* the store is the backend b and no call is in progress
Ready(b) == backend = b /\ last.op = "idle"
Snapshot == [mitems |-> mitems, mnil |-> mnil, fdir |-> fdir, files |-> files]

\* the operations that take the mutex to write
Mutating == {"Create", "Update", "Delete", "MoveBefore", "MoveAfter"}

\* the goroutines net/http runs the handler on, one per request in flight
Goroutines == 1..MaxGoroutines
\* the call of one goroutine: pc is where it stands ("idle": in no call),
\* items, index and target are the locals it carries from reading the
\* collection to writing it
GoCall(pc, op, id, ref, pos, items, index, target, res, out) ==
  [items |-> items, id |-> id, index |-> index, target |-> target, op |-> op,
   ref |-> ref, pos |-> pos, res |-> res, out |-> out, pc |-> pc]
NoCall == GoCall("idle", "", "", "", NoPoint, << >>, -1, -1, "ok", << >>)
\* sync.RWMutex with no holder
Unlocked == [writers |-> {}, readers |-> {}]

(***************************************************************************)
(* Volatile backend: server/memory/store.go                                *)
(***************************************************************************)
\* a list the caller got from All(): its elements now, whether it shares its
\* backing array with s.items, and (history) the elements the caller last
\* saw or wrote there
Held(items, shares, orig) == [items |-> items, shares |-> shares, orig |-> orig]
NoHeld == Held(<< >>, FALSE, << >>)
\* a write into the array of s.items, as a list sharing that array shows it
InPlace(h, items) ==
  IF h.shares THEN [h EXCEPT !.items = [i \in 1..Len(h.items) |-> items[i]]] ELSE h
\* s.items has a new backing array: a list that shared the old one no longer
\* follows the store
Detached(h) == [h EXCEPT !.shares = FALSE]
\* append(s.items, ...) writes behind the end of the array or allocates a
\* new one, as the capacity decides
AfterAppend(h) == IF h.shares THEN {h, Detached(h)} ELSE {h}

MemItems == [i \in 1..Len(mitems) |-> mitems[i].item]
MemAllOf(s) == [i \in 1..Len(s) |-> s[i].item]

\* Create: read the image, then append under the write lock.  readFails is
\* the image reader returning an error.
MemCreate(img, readFails) ==
  /\ Ready("memory")
  /\ prev' = Snapshot
  /\ IF readFails
     THEN /\ last' = Call("Create", "", "", NoPoint, img, "read", "error", << >>, FALSE)
          /\ UNCHANGED <<mitems, mnil, nextId, uploaded, held>>
     ELSE /\ nextId < MaxCreates
          /\ LET id == IdSeq[nextId + 1]
             IN /\ mitems' = Append(mitems, [item |-> NewItem(id), image |-> img])
                /\ uploaded' = Put(uploaded, id, img)
                /\ last' = Call("Create", id, "", NoPoint, img, "none", "ok",
                                <<NewItem(id)>>, FALSE)
          /\ mnil' = FALSE
          /\ nextId' = nextId + 1
          /\ held' \in AfterAppend(held)
  /\ UNCHANGED <<backend, fdir, files, faulted, conc, twin, http>>

MemAll ==
  /\ Ready("memory")
  /\ prev' = Snapshot
  /\ last' = Call("All", "", "", NoPoint, << >>, "none", "ok",
                  IF mnil THEN << >> ELSE MemItems, mnil)
  /\ UNCHANGED <<backend, mitems, mnil, fdir, files, nextId, faulted, uploaded, conc, twin, held, http>>

\* MemFindImage returning the image of the first item for every match
RECURSIVE MemFindImageFirst(_, _, _)
MemFindImageFirst(items, id, i) ==
  IF i >= Len(items)
  THEN [image |-> << >>, found |-> FALSE]
  ELSE IF At(items, i).item.id = id
       THEN [image |-> At(items, 0).image, found |-> TRUE]
       ELSE MemFindImageFirst(items, id, i + 1)

\* the first-match loop of GetImage; i is the loop counter
RECURSIVE MemFindImage(_, _, _)
MemFindImage(items, id, i) ==
  IF i >= Len(items)
  THEN [image |-> << >>, found |-> FALSE]
  ELSE IF At(items, i).item.id = id
       THEN [image |-> At(items, i).image, found |-> TRUE]
       ELSE MemFindImage(items, id, i + 1)

MemGetImage(id) ==
  /\ Ready("memory")
  /\ prev' = Snapshot
  /\ LET r == MemFindImage(mitems, id, 0)
     IN last' = Call("GetImage", id, "", NoPoint, << >>, "none",
                     IF r.found THEN "ok" ELSE "ErrNoSuchItem", r.image, FALSE)
  /\ UNCHANGED <<backend, mitems, mnil, fdir, files, nextId, faulted, uploaded, conc, twin, held, http>>

MemUpdate(item) ==
  /\ Ready("memory")
  /\ prev' = Snapshot
  /\ LET r == ReplaceFirst(MemItems, item, 0)
     IN /\ mitems' = [i \in 1..Len(mitems) |->
                        [item |-> r.items[i], image |-> mitems[i].image]]
        /\ last' = Call("Update", item.id, "",
                        [x |-> item.x, y |-> item.y, width |-> item.width],
                        << >>, "none",
                        IF r.exists THEN "ok" ELSE "ErrNoSuchItem", << >>, FALSE)
        /\ held' = InPlace(held, r.items)
  /\ UNCHANGED <<backend, mnil, fdir, files, nextId, faulted, uploaded, conc, twin, http>>

MemMove(id, targetID, before) ==
  /\ Ready("memory")
  /\ prev' = Snapshot
  /\ LET f == FindIndexes(Ids(MemItems), id, targetID, 0, -1, -1)
         op == IF before THEN "MoveBefore" ELSE "MoveAfter"
     IN IF f.index = -1 \/ f.target = -1
        THEN /\ last' = Call(op, id, targetID, NoPoint, << >>, "none",
                             "ErrNoSuchItem", << >>, FALSE)
             /\ UNCHANGED <<mitems, held>>
        ELSE IF ~MoveInBounds(Len(mitems), f.index, f.target, before)
             THEN /\ last' = Call(op, id, targetID, NoPoint, << >>, "none",
                                  "panic", << >>, FALSE)
                  /\ UNCHANGED <<mitems, held>>
             ELSE /\ mitems' = MoveItems(mitems, f.index, f.target, before)
                  /\ held' = InPlace(held, MoveItems(MemItems, f.index, f.target, before))
                  /\ last' = Call(op, id, targetID, NoPoint, << >>, "none",
                                  "ok", << >>, FALSE)
  /\ UNCHANGED <<backend, mnil, fdir, files, nextId, faulted, uploaded, conc, twin, http>>

MemMoveBefore(id, beforeID) == MemMove(id, beforeID, TRUE)
MemMoveAfter(id, afterID) == MemMove(id, afterID, FALSE)

\* RemainingItems over the [item, image] pairs
RECURSIVE MemRemaining(_, _)
MemRemaining(items, id) ==
  IF items = << >> THEN << >>
  ELSE IF Head(items).item.id # id
       THEN <<Head(items)>> \o MemRemaining(Tail(items), id)
       ELSE MemRemaining(Tail(items), id)

MemDelete(id) ==
  /\ Ready("memory")
  /\ prev' = Snapshot
  /\ LET remainingItems == MemRemaining(mitems, id)
     IN IF Len(mitems) = Len(remainingItems)
        THEN /\ last' = Call("Delete", id, "", NoPoint, << >>, "none",
                             "ErrNoSuchItem", << >>, FALSE)
             /\ UNCHANGED <<mitems, mnil, held>>
        ELSE /\ mitems' = remainingItems
             /\ mnil' = FALSE
             /\ held' = Detached(held)
             /\ last' = Call("Delete", id, "", NoPoint, << >>, "none",
                             "ok", << >>, FALSE)
  /\ UNCHANGED <<backend, fdir, files, nextId, faulted, uploaded, conc, twin, http>>

(***************************************************************************)
(* The index document: encoding/json on []moodboard.Item.                  *)
(* One item is written {id,x,y,width}; 0.5 takes three characters and 0    *)
(* and 1 take one, as in Go's encoding of float32.                         *)
(***************************************************************************)
DigitChars == <<"1", "2", "3", "4", "5", "6", "7", "8", "9">>
IdChars == {IdSeq[i] : i \in 1..Len(IdSeq)}

\* a coordinate that is not negative, as json.Encoder writes it
EncodeAbs(v) ==
  IF v = 0 THEN <<"0">>
  ELSE IF v = 10 THEN <<"1">>
  ELSE IF v < 10 THEN <<"0", ".", DigitChars[v]>>
  ELSE <<"1", ".", DigitChars[v - 10]>>

\* a coordinate, as json.Encoder writes it
EncodeNum(v) == IF v < 0 THEN <<"-">> \o EncodeAbs(0 - v) ELSE EncodeAbs(v)

EncodeItem(it) ==
  <<"{", it.id, ",">> \o EncodeNum(it.x) \o <<",">> \o EncodeNum(it.y)
    \o <<",">> \o EncodeNum(it.width) \o <<"}">>

RECURSIVE EncodeItems(_)
EncodeItems(items) ==
  IF items = << >> THEN << >>
  ELSE IF Len(items) = 1 THEN EncodeItem(items[1])
  ELSE EncodeItem(items[1]) \o <<",">> \o EncodeItems(Tail(items))

\* json.NewEncoder(f).Encode(items) for a non-nil slice: the array and a newline
Encode(items) == <<"[">> \o EncodeItems(items) \o <<"]", "\n">>

\* the character at 1-based position p, "" past the end of the input
Ch(s, p) == IF p >= 1 /\ p <= Len(s) THEN s[p] ELSE ""

\* a coordinate without sign read at position p: its value and the position
\* after it
DecodeAbs(s, p, sign) ==
  IF Ch(s, p) \in {"0", "1"}
  THEN IF Ch(s, p + 1) = "."
       THEN IF \E v \in 1..9 : DigitChars[v] = Ch(s, p + 2)
            THEN [ok |-> TRUE,
                  val |-> sign * ((IF Ch(s, p) = "1" THEN 10 ELSE 0)
                             + CHOOSE v \in 1..9 : DigitChars[v] = Ch(s, p + 2)),
                  next |-> p + 3]
            ELSE [ok |-> FALSE, val |-> 0, next |-> p]
       ELSE [ok |-> TRUE, val |-> sign * (IF Ch(s, p) = "1" THEN 10 ELSE 0),
             next |-> p + 1]
  ELSE [ok |-> FALSE, val |-> 0, next |-> p]

\* a coordinate read at position p: its value and the position after it
DecodeNum(s, p) ==
  IF Ch(s, p) = "-" THEN DecodeAbs(s, p + 1, -1) ELSE DecodeAbs(s, p, 1)

\* the end of an item whose coordinates x, y and w have been read
DecodeWidth(s, p, x, y, w) ==
  IF /\ Ch(s, p) = "{" /\ Ch(s, p + 1) \in IdChars /\ Ch(s, p + 2) = ","
     /\ x.ok /\ Ch(s, x.next) = ","
     /\ y.ok /\ Ch(s, y.next) = ","
     /\ w.ok /\ Ch(s, w.next) = "}"
  THEN [item |-> Item(Ch(s, p + 1), x.val, y.val, w.val), ok |-> TRUE,
        next |-> w.next + 1]
  ELSE [item |-> NewItem(""), ok |-> FALSE, next |-> p]

\* the value of an expression that is computed once: the element of {v}
Only(S) == CHOOSE v \in S : TRUE

DecodeY(s, p, x, y) ==
  Only({DecodeWidth(s, p, x, y, w) : w \in {DecodeNum(s, y.next + 1)}})

DecodeX(s, p, x) ==
  Only({DecodeY(s, p, x, y) : y \in {DecodeNum(s, x.next + 1)}})

\* one item read at position p
DecodeItem(s, p) ==
  Only({DecodeX(s, p, x) : x \in {DecodeNum(s, p + 3)}})

\* the items of an array, the first one at position p; DecodeRest goes on
\* after the item it
RECURSIVE DecodeItems(_, _, _)
RECURSIVE DecodeRest(_, _, _)
DecodeRest(s, acc, it) ==
  IF ~it.ok THEN [items |-> << >>, err |-> "syntax"]
  ELSE IF Ch(s, it.next) = "]"
       THEN [items |-> Append(acc, it.item), err |-> "nil"]
       ELSE IF Ch(s, it.next) = ","
            THEN DecodeItems(s, it.next + 1, Append(acc, it.item))
            ELSE [items |-> << >>, err |-> "syntax"]

DecodeItems(s, p, acc) ==
  Only({DecodeRest(s, acc, it) : it \in {DecodeItem(s, p)}})

\* json.NewDecoder(f).Decode(&items): reads the first JSON value of the file
\* and ignores whatever follows it; err is "nil", "EOF" (no value at all) or
\* "syntax" (anything that is not an array of items)
\* Decode that takes an empty document for a malformed one
DecodeEmptyFails(s) ==
  IF s = << >> \/ s = <<"\n">> THEN [items |-> << >>, err |-> "syntax"]
  ELSE IF Ch(s, 1) # "[" THEN [items |-> << >>, err |-> "syntax"]
  ELSE IF Ch(s, 2) = "]" THEN [items |-> << >>, err |-> "nil"]
  ELSE DecodeItems(s, 2, << >>)

Decode(s) ==
  IF s = << >> \/ s = <<"\n">> THEN [items |-> << >>, err |-> "EOF"]
  ELSE IF Ch(s, 1) # "[" THEN [items |-> << >>, err |-> "syntax"]
  ELSE IF Ch(s, 2) = "]" THEN [items |-> << >>, err |-> "nil"]
  ELSE DecodeItems(s, 2, << >>)

\* f.Write(data) at offset 0 of a file opened without O_TRUNC
Overwrite(old, data) == data \o SubSeq(old, Len(data) + 1, Len(old))
\* f.Truncate(pos)
Truncate(content, pos) == SubSeq(content, 1, pos)
\* a write that failed after n of 2 halves of the data
Partial(data, part) == SubSeq(data, 1, (Len(data) * part) \div 2)

(***************************************************************************)
(* Durable backend: server/file/store.go (Create, All, GetImage, move,     *)
(* Delete) and its item-record revision (Update).                          *)
(*                                                                         *)
(* Each call is a function of the directory and of the storage fault that  *)
(* hits it: `fault` names the system call that fails ("none": no failure), *)
(* `part` how much of a failing write reached the file.  The result says   *)
(* whether the named system call was reached at all (hit).                 *)
(***************************************************************************)
Ret(fs, dir, res, out, outNil, hit) ==
  [files |-> fs, res |-> res, out |-> out, outNil |-> outNil, dir |-> dir,
   hit |-> hit]

CreateFaults == {"mkdir", "imgopen", "imgwrite", "imgclose", "vanish", "open",
                 "decode", "seek", "encode", "close"}
ReadFaults == {"open", "decode", "imgopen"}
UpdateFaults == {"open", "decode", "seek", "encode", "close"}
RewriteFaults == {"open", "decode", "seek", "encode", "tell", "truncate", "close"}
Parts == {0, 1, 2}

\* Create from the open of index.json on; fs already holds the saved image
FileCreateIndex(fs, id, fault, part) ==
  IF fault = "vanish"
  THEN \* the directory disappeared: MkdirAll, then the re-open creates the
       \* file named id write-only; Decode cannot read it and the error path
       \* removes it
       Ret(NoFiles, TRUE, "error", << >>, FALSE, TRUE)
  ELSE IF fault = "open"
  THEN Ret(Remove(fs, id), TRUE, "error", << >>, FALSE, TRUE)
  ELSE
    LET fs2 == IF IndexName \in DOMAIN fs THEN fs ELSE Put(fs, IndexName, << >>)
        old == fs2[IndexName]
        d == Decode(old)
    IN IF fault = "decode" \/ d.err \notin {"nil", "EOF"}
       THEN Ret(Remove(fs2, id), TRUE, "error", << >>, FALSE, fault = "decode")
       ELSE IF fault = "seek"
       THEN Ret(Remove(fs2, id), TRUE, "error", << >>, FALSE, TRUE)
       ELSE
         LET item == NewItem(id)
             data == Encode(Append(d.items, item))
         IN IF fault = "encode"
            THEN Ret(Remove(Put(fs2, IndexName, Overwrite(old, Partial(data, part))), id),
                     TRUE, "error", << >>, FALSE, TRUE)
            ELSE IF fault = "close"
            THEN Ret(Remove(Put(fs2, IndexName, Overwrite(old, data)), id),
                     TRUE, "error", << >>, FALSE, TRUE)
            ELSE Ret(Put(fs2, IndexName, Overwrite(old, data)),
                     TRUE, "ok", <<item>>, FALSE, FALSE)

\* Create, with saveImage inlined
FileCreateRun(fs, dir, id, img, fault, part) ==
  IF ~dir /\ fault = "mkdir"
  THEN Ret(fs, dir, "error", << >>, FALSE, TRUE)
  ELSE IF fault = "imgopen" \/ id \in DOMAIN fs
  THEN Ret(fs, TRUE, "error", << >>, FALSE, fault = "imgopen")
  ELSE IF fault = "imgwrite"
  THEN Ret(Put(fs, id, Partial(img, part)), TRUE, "error", << >>, FALSE, TRUE)
  ELSE IF fault = "imgclose"
  THEN Ret(Put(fs, id, img), TRUE, "error", << >>, FALSE, TRUE)
  ELSE FileCreateIndex(Put(fs, id, img), id, fault, part)

FileAllRun(fs, dir, fault) ==
  IF ~dir \/ IndexName \notin DOMAIN fs
  THEN Ret(fs, dir, "ok", << >>, TRUE, FALSE)
  ELSE IF fault = "open"
  THEN Ret(fs, dir, "error", << >>, TRUE, TRUE)
  ELSE LET d == Decode(fs[IndexName])
       IN IF fault = "decode" \/ d.err \notin {"nil", "EOF"}
          THEN Ret(fs, dir, "error", << >>, TRUE, fault = "decode")
          ELSE Ret(fs, dir, "ok", d.items, d.err = "EOF", FALSE)

\* FileExists without the comparison with the requested ID
FileExistsAny(items, id) == \E i \in 1..Len(items) : items[i].id = items[i].id

\* the membership loop of GetImage
FileExists(items, id) == \E i \in 1..Len(items) : items[i].id = id

FileGetImageRun(fs, dir, id, fault) ==
  IF ~dir \/ IndexName \notin DOMAIN fs
  THEN Ret(fs, dir, "ErrNoSuchItem", << >>, FALSE, FALSE)
  ELSE IF fault = "open"
  THEN Ret(fs, dir, "error", << >>, FALSE, TRUE)
  ELSE LET d == Decode(fs[IndexName])
       IN IF fault = "decode" THEN Ret(fs, dir, "error", << >>, FALSE, TRUE)
          ELSE IF d.err = "EOF" THEN Ret(fs, dir, "ErrNoSuchItem", << >>, FALSE, FALSE)
          ELSE IF d.err # "nil" THEN Ret(fs, dir, "error", << >>, FALSE, FALSE)
          ELSE IF ~FileExists(d.items, id)
          THEN Ret(fs, dir, "ErrNoSuchItem", << >>, FALSE, FALSE)
          ELSE IF id \notin DOMAIN fs
          THEN Ret(fs, dir, "ErrNoSuchItem", << >>, FALSE, FALSE)
          ELSE IF fault = "imgopen"
          THEN Ret(fs, dir, "error", << >>, FALSE, TRUE)
          ELSE Ret(fs, dir, "ok", fs[id], FALSE, FALSE)

\* seek to the start, encode, (find the position, truncate,) close: the tail
\* of move, Delete and Update.  truncates is FALSE for Update, which closes
\* the file right after encoding.
WriteBack(fs, items, fault, part, truncates) ==
  LET old == fs[IndexName]
      data == Encode(items)
      written == Overwrite(old, data)
  IN IF fault = "seek"
     THEN Ret(fs, TRUE, "error", << >>, FALSE, TRUE)
     ELSE IF fault = "encode"
     THEN Ret(Put(fs, IndexName, Overwrite(old, Partial(data, part))),
              TRUE, "error", << >>, FALSE, TRUE)
     ELSE IF truncates /\ fault \in {"tell", "truncate"}
     THEN Ret(Put(fs, IndexName, written), TRUE, "error", << >>, FALSE, TRUE)
     ELSE LET final == IF truncates THEN Truncate(written, Len(data)) ELSE written
          IN IF fault = "close"
             THEN Ret(Put(fs, IndexName, final), TRUE, "error", << >>, FALSE, TRUE)
             ELSE Ret(Put(fs, IndexName, final), TRUE, "ok", << >>, FALSE, FALSE)

\* open index.json read/write and decode it: the head of move, Delete and
\* Update.  Gives the early return, or res = "go" and the decoded items.
OpenIndex(fs, dir, fault) ==
  IF ~dir \/ IndexName \notin DOMAIN fs
  THEN Ret(fs, dir, "ErrNoSuchItem", << >>, FALSE, FALSE)
  ELSE IF fault = "open"
  THEN Ret(fs, dir, "error", << >>, FALSE, TRUE)
  ELSE LET d == Decode(fs[IndexName])
       IN IF fault = "decode" THEN Ret(fs, dir, "error", << >>, FALSE, TRUE)
          ELSE IF d.err = "EOF" THEN Ret(fs, dir, "ErrNoSuchItem", << >>, FALSE, FALSE)
          ELSE IF d.err # "nil" THEN Ret(fs, dir, "error", << >>, FALSE, FALSE)
          ELSE Ret(fs, dir, "go", d.items, FALSE, FALSE)

FileMoveRun(fs, dir, id, targetID, before, fault, part) ==
  LET o == OpenIndex(fs, dir, fault)
      items == o.out
      f == FindIndexes(Ids(items), id, targetID, 0, -1, -1)
  IN IF o.res # "go" THEN o
     ELSE IF f.index = -1 \/ f.target = -1
     THEN Ret(fs, dir, "ErrNoSuchItem", << >>, FALSE, FALSE)
     ELSE IF ~MoveInBounds(Len(items), f.index, f.target, before)
     THEN Ret(fs, dir, "panic", << >>, FALSE, FALSE)
     ELSE WriteBack(fs, MoveItems(items, f.index, f.target, before), fault, part, TRUE)

FileDeleteRun(fs, dir, id, fault, part) ==
  LET o == OpenIndex(fs, dir, fault)
      items == o.out
      remainingItems == RemainingItems(items, id)
  IN IF o.res # "go" THEN o
     ELSE IF Len(items) = Len(remainingItems)
     THEN Ret(fs, dir, "ErrNoSuchItem", << >>, FALSE, FALSE)
     ELSE WriteBack(fs, remainingItems, fault, part, TRUE)

FileUpdateRun(fs, dir, item, fault, part) ==
  LET o == OpenIndex(fs, dir, fault)
      r == ReplaceFirst(o.out, item, 0)
  IN IF o.res # "go" THEN o
     ELSE IF ~r.exists
     THEN Ret(fs, dir, "ErrNoSuchItem", << >>, FALSE, FALSE)
     ELSE WriteBack(fs, r.items, fault, part, FALSE)

\* one call on the durable backend: r is the outcome of its Run function
FileStep(op, id, ref, pos, img, fault, r) ==
  /\ fault = "none" \/ (~faulted /\ r.hit)
  /\ prev' = Snapshot
  /\ files' = r.files
  /\ fdir' = r.dir
  /\ faulted' = (faulted \/ r.hit)
  /\ last' = Call(op, id, ref, pos, img, IF r.hit THEN fault ELSE "none",
                  r.res, r.out, r.outNil)
  /\ UNCHANGED <<backend, mitems, mnil, conc, twin>>

FileCreate(img, fault, part) ==
  /\ Ready("file")
  /\ nextId < MaxCreates
  /\ LET id == IdSeq[nextId + 1]
     IN FileStep("Create", id, "", NoPoint, img, fault,
                 FileCreateRun(files, fdir, id, img, fault, part))
        /\ uploaded' = Put(uploaded, id, img)
  /\ nextId' = nextId + 1
  /\ UNCHANGED <<held, http>>

FileAll(fault) ==
  /\ Ready("file")
  /\ FileStep("All", "", "", NoPoint, << >>, fault, FileAllRun(files, fdir, fault))
  /\ UNCHANGED <<nextId, uploaded, held, http>>

FileGetImage(id, fault) ==
  /\ Ready("file")
  /\ FileStep("GetImage", id, "", NoPoint, << >>, fault,
              FileGetImageRun(files, fdir, id, fault))
  /\ UNCHANGED <<nextId, uploaded, held, http>>

FileUpdate(item, fault, part) ==
  /\ Ready("file")
  /\ FileStep("Update", item.id, "",
              [x |-> item.x, y |-> item.y, width |-> item.width], << >>, fault,
              FileUpdateRun(files, fdir, item, fault, part))
  /\ UNCHANGED <<nextId, uploaded, held, http>>

FileMoveBefore(id, beforeID, fault, part) ==
  /\ Ready("file")
  /\ FileStep("MoveBefore", id, beforeID, NoPoint, << >>, fault,
              FileMoveRun(files, fdir, id, beforeID, TRUE, fault, part))
  /\ UNCHANGED <<nextId, uploaded, held, http>>

FileMoveAfter(id, afterID, fault, part) ==
  /\ Ready("file")
  /\ FileStep("MoveAfter", id, afterID, NoPoint, << >>, fault,
              FileMoveRun(files, fdir, id, afterID, FALSE, fault, part))
  /\ UNCHANGED <<nextId, uploaded, held, http>>

FileDelete(id, fault, part) ==
  /\ Ready("file")
  /\ FileStep("Delete", id, "", NoPoint, << >>, fault,
              FileDeleteRun(files, fdir, id, fault, part))
  /\ UNCHANGED <<nextId, uploaded, held, http>>

(***************************************************************************)
(* What the HTTP handler is asked and what it answers.                      *)
(***************************************************************************)
\* an HTTP request: method, route ("move", "image" or "root", from the URL
\* path) and the ID in the path, Content-Type, and what the body decodes to
\* (malformed: it does not decode; before, after, itemId and pos: its
\* fields); upload is what the multipart reader makes of a create request
\* and img the bytes of the uploaded file
Request(method, route, id, ctype, malformed, before, after, itemId, pos, upload, img) ==
  [id |-> id, before |-> before, pos |-> pos, img |-> img, method |-> method,
   route |-> route, ctype |-> ctype, malformed |-> malformed, after |-> after,
   itemId |-> itemId, upload |-> upload]
NoRequest == Request("", "root", "", "", FALSE, "", "", "", NoPoint, "", << >>)

\* the response: status, Allow header, body, and the store operation the
\* handler called ("" when it called none)
Response(req, status, allow, body, called) ==
  [req |-> req, status |-> status, allow |-> allow, body |-> body, called |-> called]
NoResponse == Response(NoRequest, 0, "", << >>, "")

(***************************************************************************)
(* The system: NewStore of either backend, then any sequence of calls.     *)
(***************************************************************************)
InitOn(backends) ==
  /\ backend \in backends
  /\ mitems = << >>
  /\ mnil = TRUE
  /\ fdir \in BOOLEAN
  /\ (backend = "memory" => fdir = FALSE)
  /\ files = NoFiles
  /\ nextId = 0
  /\ faulted = FALSE
  /\ prev = [mitems |-> << >>, mnil |-> TRUE, fdir |-> fdir, files |-> NoFiles]
  /\ uploaded = NoFiles
  /\ last = Idle
  /\ mutex = Unlocked
  /\ calls = [g \in Goroutines |-> NoCall]
  /\ serial = << >>
  /\ stable = << >>
  /\ seen = [g \in Goroutines |-> {}]
  /\ twin = Idle
  /\ held = NoHeld
  /\ http = NoResponse

Init == InitOn({"memory", "file"})
\* the server started on the durable backend
InitFile == InitOn({"file"})

\* the caller has taken a call's result; the store is ready for the next call
Return ==
  /\ last.op # "idle"
  /\ last' = Idle
  /\ prev' = Snapshot
  /\ UNCHANGED <<backend, mitems, mnil, fdir, files, nextId, faulted, uploaded, conc, twin, held, http>>

\* the calls of the volatile backend on existing items
MemCalls ==
  \/ MemAll
  \/ \E id \in ImageIds : MemGetImage(id)
  \/ \E id \in CallIds, p \in Points : MemUpdate(Item(id, p.x, p.y, p.width))
  \/ \E id, t \in CallIds : MemMoveBefore(id, t)
  \/ \E id, t \in CallIds : MemMoveAfter(id, t)
  \/ \E id \in CallIds : MemDelete(id)

\* the calls of the durable backend on existing items, on storage that does
\* not fail
FileCalls ==
  \/ FileAll("none")
  \/ \E id \in ImageIds : FileGetImage(id, "none")
  \/ \E id \in CallIds, p \in Points : FileUpdate(Item(id, p.x, p.y, p.width), "none", 0)
  \/ \E id, t \in CallIds : FileMoveBefore(id, t, "none", 0)
  \/ \E id, t \in CallIds : FileMoveAfter(id, t, "none", 0)
  \/ \E id \in CallIds : FileDelete(id, "none", 0)

\* up to MaxCreates items, every one created with the empty image
Next ==
  \/ \E readFails \in BOOLEAN : MemCreate(EmptyImage, readFails)
  \/ FileCreate(EmptyImage, "none", 0)
  \/ MemCalls
  \/ FileCalls
  \/ Return

\* up to MaxImageCreates items, created with any of Images
NextImage ==
  \/ \E img \in Images, readFails \in BOOLEAN :
       nextId < MaxImageCreates /\ MemCreate(img, readFails)
  \/ \E img \in Images : nextId < MaxImageCreates /\ FileCreate(img, "none", 0)
  \/ MemCalls
  \/ FileCalls
  \/ Return

Spec == Init /\ [][Next]_vars
SpecImage == Init /\ [][NextImage]_vars

\* the server started on a directory that holds an empty index.json
EmptyIndex == Put(NoFiles, IndexName, << >>)
InitEmptyIndex ==
  /\ backend = "file"
  /\ mitems = << >>
  /\ mnil = TRUE
  /\ fdir = TRUE
  /\ files = EmptyIndex
  /\ nextId = 0
  /\ faulted = FALSE
  /\ prev = [mitems |-> << >>, mnil |-> TRUE, fdir |-> TRUE, files |-> EmptyIndex]
  /\ uploaded = NoFiles
  /\ last = Idle
  /\ mutex = Unlocked
  /\ calls = [g \in Goroutines |-> NoCall]
  /\ serial = << >>
  /\ stable = << >>
  /\ seen = [g \in Goroutines |-> {}]
  /\ twin = Idle
  /\ held = NoHeld
  /\ http = NoResponse

\* a store on either backend; the durable one finds no directory, an empty
\* directory or an empty index.json
InitFresh == Init \/ InitEmptyIndex
SpecFresh == InitFresh /\ [][Next]_vars

(***************************************************************************)
(* Several goroutines on one store.  A call is: wait for the mutex, take   *)
(* it, read the collection, write it (a mutation), release the mutex.      *)
(* A mutation writes in two steps: the durable backend's write of the new  *)
(* document reaches the file in two halves, the volatile backend's move    *)
(* first shifts the items and then stores the moved one.                   *)
(***************************************************************************)
\* CanLock that waits for the readers only
CanLockAmongWriters(g) == mutex.readers = {}

\* CanLock that waits for the writers only
CanLockDespiteReaders(g) == mutex.writers = {}

\* the goroutines whose s.mutex.Lock() found readers inside: Lock keeps later
\* readers and writers out and waits for the readers to leave
Announced == {g \in Goroutines : calls[g].pc = "wait"}

\* s.mutex.Lock() returns: nobody holds the mutex and no other Lock waits
\* for the readers
CanLock(g) == mutex.writers = {} /\ mutex.readers = {} /\ Announced \subseteq {g}

\* CanRLock that never waits
CanRLockAlways(g) == TRUE

\* CanRLock of a mutex without shared access: it waits for the readers too
CanRLockAlone(g) == mutex.writers = {} /\ mutex.readers = {}

\* s.mutex.RLock() returns: no writer holds the mutex or waits in Lock for
\* the readers to leave
CanRLock(g) == mutex.writers = {} /\ Announced = {}

SetCall(g, c) == [calls EXCEPT ![g] = c]
\* Creates that have not drawn their ID yet
WaitingCreates ==
  {g \in Goroutines : calls[g].op = "Create" /\ calls[g].pc \in {"reading", "lock", "wait"}}

\* where a call starts: Create of the volatile backend reads its image with
\* ioutil.ReadAll, every other operation locks the mutex first
FirstStep(op) == IF backend = "memory" /\ op = "Create" THEN "reading" ELSE "lock"

\* a store whose Create locks the mutex and then reads its image
GoInvokeLocked(g, op, id, ref, pos) ==
  /\ last.op = "idle"
  /\ calls[g].pc = "idle"
  /\ op = "Create" => nextId + Cardinality(WaitingCreates) < MaxConcCreates
  /\ calls' = SetCall(g, GoCall(FirstStep(op), op, id, ref, pos, << >>, -1, -1, "ok", << >>))
  /\ IF FirstStep(op) = "reading"
     THEN mutex.writers = {} /\ mutex.readers = {}
          /\ mutex' = [mutex EXCEPT !.writers = {g}]
     ELSE UNCHANGED mutex
  /\ UNCHANGED <<backend, mitems, mnil, fdir, files, nextId, faulted, uploaded,
                 prev, last, twin, held, http, serial, stable, seen>>

\* what the mutation c makes of the collection items when it runs alone
SerialMove(items, f, before) ==
  IF f.index = -1 \/ f.target = -1 THEN items
  ELSE MoveItems(items, f.index, f.target, before)

SerialApply(items, c) ==
  CASE c.op = "Create" -> Append(items, NewItem(c.id))
    [] c.op = "Update" ->
         ReplaceFirst(items, Item(c.id, c.pos.x, c.pos.y, c.pos.width), 0).items
    [] c.op = "Delete" -> RemainingItems(items, c.id)
    [] c.op = "MoveBefore" ->
         SerialMove(items, FindIndexes(Ids(items), c.id, c.ref, 0, -1, -1), TRUE)
    [] c.op = "MoveAfter" ->
         SerialMove(items, FindIndexes(Ids(items), c.id, c.ref, 0, -1, -1), FALSE)

\* a request arrives: the handler calls the store and waits for the mutex
GoInvoke(g, op, id, ref, pos) ==
  /\ last.op = "idle"
  /\ calls[g].pc = "idle"
  /\ op = "Create" => nextId + Cardinality(WaitingCreates) < MaxConcCreates
  /\ calls' = SetCall(g, GoCall(FirstStep(op), op, id, ref, pos, << >>, -1, -1, "ok", << >>))
  /\ UNCHANGED <<backend, mitems, mnil, fdir, files, nextId, faulted, uploaded,
                 prev, last, twin, held, http, mutex, serial, stable, seen>>

\* ioutil.ReadAll(img) of the volatile backend's Create returns the image
GoReadAll(g) ==
  /\ calls[g].pc = "reading"
  /\ calls' = SetCall(g, [calls[g] EXCEPT !.pc = "lock"])
  /\ UNCHANGED <<backend, mitems, mnil, fdir, files, nextId, faulted, uploaded,
                 prev, last, twin, held, http, mutex, serial, stable, seen>>

\* ioutil.ReadAll(img) fails: Create returns the error
GoReadAllFails(g) ==
  /\ calls[g].pc = "reading"
  /\ calls' = SetCall(g, [calls[g] EXCEPT !.pc = "done", !.res = "error"])
  /\ UNCHANGED <<backend, mitems, mnil, fdir, files, nextId, faulted, uploaded,
                 prev, last, twin, held, http, mutex, serial, stable, seen>>

\* the acquired call, with the ID uuid.New() gives a Create
Acquired(c) ==
  [c EXCEPT !.pc = "load", !.id = IF c.op = "Create" THEN IdSeq[nextId + 1] ELSE @]

\* s.mutex.Lock() of a mutation finds readers inside and no other writer:
\* it waits, and RLock waits behind it
GoAnnounce(g) ==
  /\ calls[g].pc = "lock" /\ calls[g].op \in Mutating
  /\ mutex.writers = {} /\ mutex.readers # {} /\ Announced = {}
  /\ calls' = SetCall(g, [calls[g] EXCEPT !.pc = "wait"])
  /\ UNCHANGED <<backend, mitems, mnil, fdir, files, nextId, faulted, uploaded,
                 prev, last, twin, held, http, mutex, serial, stable, seen>>

\* s.mutex.Lock() of a mutation returns
GoLock(g) ==
  /\ calls[g].pc \in {"lock", "wait"} /\ calls[g].op \in Mutating
  /\ CanLock(g)
  /\ mutex' = [mutex EXCEPT !.writers = @ \cup {g}]
  /\ calls' = SetCall(g, Acquired(calls[g]))
  /\ serial' = SerialApply(serial, Acquired(calls[g]))
  /\ IF calls[g].op = "Create"
     THEN /\ nextId' = nextId + 1
          /\ uploaded' = Put(uploaded, IdSeq[nextId + 1], EmptyImage)
     ELSE UNCHANGED <<nextId, uploaded>>
  /\ UNCHANGED <<backend, mitems, mnil, fdir, files, faulted, prev, last, twin, held, http, stable, seen>>

\* s.mutex.RLock() of All or GetImage returns
GoRLock(g) ==
  /\ calls[g].pc = "lock" /\ calls[g].op \in {"All", "GetImage"}
  /\ CanRLock(g)
  /\ mutex' = [mutex EXCEPT !.readers = @ \cup {g}]
  /\ calls' = SetCall(g, [calls[g] EXCEPT !.pc = "read"])
  /\ UNCHANGED <<backend, mitems, mnil, fdir, files, nextId, faulted, uploaded,
                 prev, last, twin, held, http, serial, stable, seen>>

\* what All or GetImage reads under the read lock
ReadRun(c) ==
  IF backend = "memory"
  THEN IF c.op = "All"
       THEN Ret(files, fdir, "ok", MemAllOf(mitems), mnil, FALSE)
       ELSE Ret(files, fdir,
                IF MemFindImage(mitems, c.id, 0).found THEN "ok" ELSE "ErrNoSuchItem",
                MemFindImage(mitems, c.id, 0).image, FALSE, FALSE)
  ELSE IF c.op = "All"
       THEN FileAllRun(files, fdir, "none")
       ELSE FileGetImageRun(files, fdir, c.id, "none")

\* the body of All or GetImage and the deferred RUnlock
GoRead(g) ==
  /\ calls[g].pc = "read"
  /\ calls' = SetCall(g, [calls[g] EXCEPT !.pc = "done",
                                          !.res = ReadRun(calls[g]).res,
                                          !.out = ReadRun(calls[g]).out])
  /\ mutex' = [mutex EXCEPT !.readers = @ \ {g}]
  /\ seen' = [seen EXCEPT ![g] = {stable, serial}]
  /\ UNCHANGED <<backend, mitems, mnil, fdir, files, nextId, faulted, uploaded,
                 prev, last, twin, held, http, serial, stable>>

\* the handler has taken the result of All or GetImage
GoReturn(g) ==
  /\ calls[g].pc = "done"
  /\ calls' = SetCall(g, NoCall)
  /\ seen' = [seen EXCEPT ![g] = {}]
  /\ UNCHANGED <<backend, mitems, mnil, fdir, files, nextId, faulted, uploaded,
                 prev, last, twin, held, http, mutex, serial, stable>>

\* Unlock that ends the call and keeps the mutex
UnlockForgotten(g) ==
  /\ mutex' = mutex
  /\ calls' = SetCall(g, NoCall)
  /\ stable' = serial

\* a mutation returns: the deferred Unlock
Unlock(g) ==
  /\ mutex' = [mutex EXCEPT !.writers = @ \ {g}]
  /\ calls' = SetCall(g, NoCall)
  /\ stable' = serial

\* the index of the first item with the given ID, -1 if there is none
FirstIndex(ids, id) == FindIndexes(ids, id, id, 0, -1, -1).index

\* the volatile backend's mutation c after it has read s.items: its locals,
\* and pc "fail" when it returns ErrNoSuchItem
MemMoveLoaded(c, f) ==
  IF f.index = -1 \/ f.target = -1 THEN [c EXCEPT !.pc = "fail"]
  ELSE [c EXCEPT !.index = f.index, !.target = f.target,
                 !.items = <<At(mitems, f.index)>>, !.pc = "store1"]

MemLoaded(c) ==
  CASE c.op = "Create" -> [c EXCEPT !.items = mitems, !.pc = "store2"]
    [] c.op = "Update" ->
         IF FirstIndex(Ids(MemItems), c.id) = -1 THEN [c EXCEPT !.pc = "fail"]
         ELSE [c EXCEPT !.index = FirstIndex(Ids(MemItems), c.id), !.pc = "store2"]
    [] c.op = "Delete" ->
         IF Len(MemRemaining(mitems, c.id)) = Len(mitems) THEN [c EXCEPT !.pc = "fail"]
         ELSE [c EXCEPT !.items = MemRemaining(mitems, c.id), !.pc = "store2"]
    [] c.op \in {"MoveBefore", "MoveAfter"} ->
         MemMoveLoaded(c, FindIndexes(Ids(MemItems), c.id, c.ref, 0, -1, -1))

\* a mutation of the volatile backend reads s.items
GoMemLoad(g) ==
  /\ backend = "memory"
  /\ calls[g].pc = "load"
  /\ IF MemLoaded(calls[g]).pc = "fail"
     THEN Unlock(g)
     ELSE calls' = SetCall(g, MemLoaded(calls[g])) /\ UNCHANGED <<mutex, stable>>
  /\ UNCHANGED <<backend, mitems, mnil, fdir, files, nextId, faulted, uploaded,
                 prev, last, twin, held, http, serial, seen>>

\* move in the volatile backend: the copy() that shifts the items in place
GoMemStore1(g) ==
  /\ backend = "memory"
  /\ calls[g].pc = "store1"
  /\ mitems' =
       IF MoveInBounds(Len(mitems), calls[g].index, calls[g].target,
                       calls[g].op = "MoveBefore")
       THEN ShiftItems(mitems, calls[g].index, calls[g].target,
                       AdjustTarget(calls[g].index, calls[g].target,
                                    calls[g].op = "MoveBefore"))
       ELSE mitems
  /\ calls' = SetCall(g, [calls[g] EXCEPT !.pc = "store2"])
  /\ UNCHANGED <<backend, mnil, fdir, files, nextId, faulted, uploaded,
                 prev, last, twin, held, http, mutex, serial, stable, seen>>

\* s.items after the last write of the volatile backend's mutation c
MemStored(c) ==
  CASE c.op = "Create" ->
         Append(c.items, [item |-> NewItem(c.id), image |-> EmptyImage])
    [] c.op = "Update" ->
         IF c.index < Len(mitems)
         THEN [mitems EXCEPT ![c.index + 1].item = Item(c.id, c.pos.x, c.pos.y, c.pos.width)]
         ELSE mitems
    [] c.op = "Delete" -> c.items
    [] c.op \in {"MoveBefore", "MoveAfter"} ->
         IF MoveInBounds(Len(mitems), c.index, c.target, c.op = "MoveBefore")
         THEN [mitems EXCEPT ![AdjustTarget(c.index, c.target, c.op = "MoveBefore") + 1]
                               = c.items[1]]
         ELSE mitems

\* the last write of a mutation of the volatile backend, and its return
GoMemStore2(g) ==
  /\ backend = "memory"
  /\ calls[g].pc = "store2"
  /\ mitems' = MemStored(calls[g])
  /\ mnil' = IF calls[g].op \in {"Create", "Delete"} THEN FALSE ELSE mnil
  /\ Unlock(g)
  /\ UNCHANGED <<backend, fdir, files, nextId, faulted, uploaded,
                 prev, last, twin, held, http, serial, seen>>

\* the bytes of index.json in the directory fs; a missing document reads as
\* an empty one
IndexDocument(fs) == IF IndexName \in DOMAIN fs THEN fs[IndexName] ELSE << >>

\* the directory with index.json opened O_CREATE
WithIndex(fs) == IF IndexName \in DOMAIN fs THEN fs ELSE Put(fs, IndexName, << >>)

\* the durable backend's mutations up to the seek: the early return, or
\* res = "go" and the list to encode
CreateLoaded(fs, id, d) ==
  IF d.err \notin {"nil", "EOF"}
  THEN Ret(Remove(fs, id), TRUE, "error", << >>, FALSE, FALSE)
  ELSE Ret(fs, TRUE, "go", Append(d.items, NewItem(id)), FALSE, FALSE)

UpdateLoaded(o, r) ==
  IF o.res # "go" THEN o
  ELSE IF ~r.exists THEN Ret(o.files, o.dir, "ErrNoSuchItem", << >>, FALSE, FALSE)
  ELSE Ret(o.files, o.dir, "go", r.items, FALSE, FALSE)

DeleteLoaded(o, remainingItems) ==
  IF o.res # "go" THEN o
  ELSE IF Len(o.out) = Len(remainingItems)
  THEN Ret(o.files, o.dir, "ErrNoSuchItem", << >>, FALSE, FALSE)
  ELSE Ret(o.files, o.dir, "go", remainingItems, FALSE, FALSE)

MoveLoaded(o, f, before) ==
  IF o.res # "go" THEN o
  ELSE IF f.index = -1 \/ f.target = -1
  THEN Ret(o.files, o.dir, "ErrNoSuchItem", << >>, FALSE, FALSE)
  ELSE Ret(o.files, o.dir, "go", MoveItems(o.out, f.index, f.target, before), FALSE, FALSE)

FileLoaded(c, o) ==
  CASE c.op = "Create" ->
         IF c.id \in DOMAIN files
         THEN Ret(files, TRUE, "error", << >>, FALSE, FALSE)
         ELSE CreateLoaded(WithIndex(Put(files, c.id, EmptyImage)), c.id,
                           Decode(IndexDocument(files)))
    [] c.op = "Update" ->
         UpdateLoaded(o, ReplaceFirst(o.out, Item(c.id, c.pos.x, c.pos.y, c.pos.width), 0))
    [] c.op = "Delete" -> DeleteLoaded(o, RemainingItems(o.out, c.id))
    [] c.op = "MoveBefore" ->
         MoveLoaded(o, FindIndexes(Ids(o.out), c.id, c.ref, 0, -1, -1), TRUE)
    [] c.op = "MoveAfter" ->
         MoveLoaded(o, FindIndexes(Ids(o.out), c.id, c.ref, 0, -1, -1), FALSE)

\* a mutation of the durable backend saves the image (Create), opens
\* index.json and decodes it
GoFileLoad(g, r) ==
  /\ files' = r.files
  /\ fdir' = r.dir
  /\ IF r.res # "go"
     THEN Unlock(g)
     ELSE /\ calls' = SetCall(g, [calls[g] EXCEPT !.items = r.out, !.pc = "store1"])
          /\ UNCHANGED <<mutex, stable>>
  /\ UNCHANGED <<backend, mitems, mnil, nextId, faulted, uploaded,
                 prev, last, twin, held, http, serial, seen>>

GoFileLoads(g) ==
  /\ backend = "file"
  /\ calls[g].pc = "load"
  /\ \E o \in {OpenIndex(files, fdir, "none")} :
       \E r \in {FileLoaded(calls[g], o)} : GoFileLoad(g, r)

\* move and Delete truncate index.json after the write, Create and Update
\* do not
Truncates(c) == c.op \in {"MoveBefore", "MoveAfter", "Delete"}

\* the first half of the new document has reached index.json
GoFileStore1(g) ==
  /\ backend = "file"
  /\ calls[g].pc = "store1"
  /\ IndexName \in DOMAIN files
  /\ files' = WriteBack(files, calls[g].items, "encode", 1, Truncates(calls[g])).files
  /\ calls' = SetCall(g, [calls[g] EXCEPT !.pc = "store2"])
  /\ UNCHANGED <<backend, mitems, mnil, fdir, nextId, faulted, uploaded,
                 prev, last, twin, held, http, mutex, serial, stable, seen>>

\* the rest of the write, the truncation and the close, and the return
GoFileStore2(g) ==
  /\ backend = "file"
  /\ calls[g].pc = "store2"
  /\ IndexName \in DOMAIN files
  /\ files' = WriteBack(files, calls[g].items, "none", 0, Truncates(calls[g])).files
  /\ Unlock(g)
  /\ UNCHANGED <<backend, mitems, mnil, fdir, nextId, faulted, uploaded,
                 prev, last, twin, held, http, serial, seen>>

\* IDs the goroutines name: those their Creates can give
ConcIds == {IdSeq[i] : i \in 1..MaxConcCreates}

NextConc ==
  \/ \E g \in Goroutines : GoInvoke(g, "Create", "", "", NoPoint)
  \/ \E g \in Goroutines : GoInvoke(g, "All", "", "", NoPoint)
  \/ \E g \in Goroutines, id \in ConcIds : GoInvoke(g, "GetImage", id, "", NoPoint)
  \/ \E g \in Goroutines, id \in ConcIds, p \in Points : GoInvoke(g, "Update", id, "", p)
  \/ \E g \in Goroutines, id, t \in ConcIds : GoInvoke(g, "MoveBefore", id, t, NoPoint)
  \/ \E g \in Goroutines, id, t \in ConcIds : GoInvoke(g, "MoveAfter", id, t, NoPoint)
  \/ \E g \in Goroutines, id \in ConcIds : GoInvoke(g, "Delete", id, "", NoPoint)
  \/ \E g \in Goroutines : GoReadAll(g)
  \/ \E g \in Goroutines : GoReadAllFails(g)
  \/ \E g \in Goroutines : GoAnnounce(g)
  \/ \E g \in Goroutines : GoLock(g)
  \/ \E g \in Goroutines : GoRLock(g)
  \/ \E g \in Goroutines : GoRead(g)
  \/ \E g \in Goroutines : GoReturn(g)
  \/ \E g \in Goroutines : GoMemLoad(g)
  \/ \E g \in Goroutines : GoMemStore1(g)
  \/ \E g \in Goroutines : GoMemStore2(g)
  \/ \E g \in Goroutines : GoFileLoads(g)
  \/ \E g \in Goroutines : GoFileStore1(g)
  \/ \E g \in Goroutines : GoFileStore2(g)

SpecConc == Init /\ [][NextConc]_vars

(***************************************************************************)
(* Progress.  A call of the durable backend that holds the mutex can fail  *)
(* at any of its system calls; it then returns through its deferred        *)
(* Unlock or RUnlock.  sync.RWMutex lets no waiting Lock or RLock starve:  *)
(* a Lock that waits keeps later readers out, the mutex of the writers     *)
(* hands over to the goroutine that waits longest, and Unlock lets the     *)
(* readers in that wait behind the writer.                                 *)
(***************************************************************************)
\* a system call of the call g fails: g returns an error
GoFail(g) ==
  /\ backend = "file"
  /\ ~faulted
  /\ calls[g].pc \in {"load", "store1", "store2", "read"}
  /\ faulted' = TRUE
  /\ IF calls[g].pc = "read"
     THEN /\ calls' = SetCall(g, [calls[g] EXCEPT !.pc = "done", !.res = "error"])
          /\ mutex' = [mutex EXCEPT !.readers = @ \ {g}]
          /\ UNCHANGED stable
     ELSE Unlock(g)
  /\ UNCHANGED <<backend, mitems, mnil, fdir, files, nextId, uploaded,
                 prev, last, twin, held, http, serial, seen>>

\* the steps a call takes by itself once it holds the mutex, and its return
GoRun(g) ==
  \/ GoRead(g)
  \/ GoReturn(g)
  \/ GoMemLoad(g)
  \/ GoMemStore1(g)
  \/ GoMemStore2(g)
  \/ GoFileLoads(g)
  \/ GoFileStore1(g)
  \/ GoFileStore2(g)

LiveIds == {IdSeq[i] : i \in 1..MaxLiveCreates}

NextLive ==
  \/ \E g \in Goroutines :
       /\ nextId + Cardinality(WaitingCreates) < MaxLiveCreates
       /\ GoInvoke(g, "Create", "", "", NoPoint)
  \/ \E g \in Goroutines : GoInvoke(g, "All", "", "", NoPoint)
  \/ \E g \in Goroutines, id \in LiveIds : GoInvoke(g, "GetImage", id, "", NoPoint)
  \/ \E g \in Goroutines, id \in LiveIds : GoInvoke(g, "MoveBefore", id, id, NoPoint)
  \/ \E g \in Goroutines, id \in LiveIds : GoInvoke(g, "Delete", id, "", NoPoint)
  \/ \E g \in Goroutines : GoReadAll(g)
  \/ \E g \in Goroutines : GoReadAllFails(g)
  \/ \E g \in Goroutines : GoAnnounce(g)
  \/ \E g \in Goroutines : GoLock(g)
  \/ \E g \in Goroutines : GoRLock(g)
  \/ \E g \in Goroutines : GoRun(g)
  \/ \E g \in Goroutines : GoFail(g)

\* every call that can run does, and no call waits for the mutex for ever
\* while it could take it again and again
Fairness ==
  \A g \in Goroutines :
    /\ WF_vars(GoRun(g))
    /\ SF_vars(GoAnnounce(g) \/ GoLock(g))
    /\ SF_vars(GoRLock(g))

SpecLive == Init /\ [][NextLive]_vars /\ Fairness

(***************************************************************************)
(* Both backends side by side: one volatile and one durable store receive  *)
(* the same calls, on storage that does not fail.  last holds the durable  *)
(* store's result of a call and twin the volatile store's.                 *)
(***************************************************************************)
\* what a call of the volatile backend leaves in s.items and returns
MemRet(items, nil, res, out, outNil) ==
  [mitems |-> items, mnil |-> nil, res |-> res, out |-> out, outNil |-> outNil]

MemCreateRun(items, id, img) ==
  MemRet(Append(items, [item |-> NewItem(id), image |-> img]), FALSE,
         "ok", <<NewItem(id)>>, FALSE)

MemAllRun(items, nil) ==
  MemRet(items, nil, "ok", IF nil THEN << >> ELSE MemAllOf(items), nil)

\* r is what the loop of GetImage found
MemGetImageRun(items, nil, r) ==
  MemRet(items, nil, IF r.found THEN "ok" ELSE "ErrNoSuchItem", r.image, FALSE)

\* r is what the loop of Update made of the items
MemUpdateRun(items, nil, r) ==
  MemRet([i \in 1..Len(items) |-> [item |-> r.items[i], image |-> items[i].image]],
         nil, IF r.exists THEN "ok" ELSE "ErrNoSuchItem", << >>, FALSE)

\* f holds the indexes the loop of move found
MemMoveRun(items, nil, f, before) ==
  IF f.index = -1 \/ f.target = -1
  THEN MemRet(items, nil, "ErrNoSuchItem", << >>, FALSE)
  ELSE IF ~MoveInBounds(Len(items), f.index, f.target, before)
  THEN MemRet(items, nil, "panic", << >>, FALSE)
  ELSE MemRet(MoveItems(items, f.index, f.target, before), nil, "ok", << >>, FALSE)

MemDeleteRun(items, nil, remainingItems) ==
  IF Len(items) = Len(remainingItems)
  THEN MemRet(items, nil, "ErrNoSuchItem", << >>, FALSE)
  ELSE MemRet(remainingItems, FALSE, "ok", << >>, FALSE)

\* one call on both stores: r is the durable store's outcome, m the volatile
\* store's
BothStep(op, id, ref, pos, img, r, m) ==
  /\ prev' = Snapshot
  /\ files' = r.files
  /\ fdir' = r.dir
  /\ mitems' = m.mitems
  /\ mnil' = m.mnil
  /\ last' = Call(op, id, ref, pos, img, "none", r.res, r.out, r.outNil)
  /\ twin' = Call(op, id, ref, pos, img, "none", m.res, m.out, m.outNil)
  /\ UNCHANGED <<backend, faulted, conc, held>>

\* uuid.New() gives both Creates the ID of the same creation index
BothCreate(img) ==
  /\ Ready("both")
  /\ nextId < MaxBothCreates
  /\ BothStep("Create", IdSeq[nextId + 1], "", NoPoint, img,
              FileCreateRun(files, fdir, IdSeq[nextId + 1], img, "none", 0),
              MemCreateRun(mitems, IdSeq[nextId + 1], img))
  /\ uploaded' = Put(uploaded, IdSeq[nextId + 1], img)
  /\ nextId' = nextId + 1
  /\ UNCHANGED http

BothAll ==
  /\ Ready("both")
  /\ BothStep("All", "", "", NoPoint, << >>,
              FileAllRun(files, fdir, "none"), MemAllRun(mitems, mnil))
  /\ UNCHANGED <<nextId, uploaded, http>>

BothGetImage(id) ==
  /\ Ready("both")
  /\ BothStep("GetImage", id, "", NoPoint, << >>,
              FileGetImageRun(files, fdir, id, "none"),
              MemGetImageRun(mitems, mnil, MemFindImage(mitems, id, 0)))
  /\ UNCHANGED <<nextId, uploaded, http>>

BothUpdate(item) ==
  /\ Ready("both")
  /\ BothStep("Update", item.id, "",
              [x |-> item.x, y |-> item.y, width |-> item.width], << >>,
              FileUpdateRun(files, fdir, item, "none", 0),
              MemUpdateRun(mitems, mnil, ReplaceFirst(MemItems, item, 0)))
  /\ UNCHANGED <<nextId, uploaded, http>>

BothMove(op, id, targetID, before) ==
  /\ Ready("both")
  /\ BothStep(op, id, targetID, NoPoint, << >>,
              FileMoveRun(files, fdir, id, targetID, before, "none", 0),
              MemMoveRun(mitems, mnil,
                         FindIndexes(Ids(MemItems), id, targetID, 0, -1, -1), before))
  /\ UNCHANGED <<nextId, uploaded, http>>

BothMoveBefore(id, beforeID) == BothMove("MoveBefore", id, beforeID, TRUE)
BothMoveAfter(id, afterID) == BothMove("MoveAfter", id, afterID, FALSE)

BothDelete(id) ==
  /\ Ready("both")
  /\ BothStep("Delete", id, "", NoPoint, << >>,
              FileDeleteRun(files, fdir, id, "none", 0),
              MemDeleteRun(mitems, mnil, MemRemaining(mitems, id)))
  /\ UNCHANGED <<nextId, uploaded, http>>

\* the caller has taken both results
BothReturn ==
  /\ backend = "both"
  /\ last.op # "idle"
  /\ last' = Idle
  /\ twin' = Idle
  /\ prev' = Snapshot
  /\ UNCHANGED <<backend, mitems, mnil, fdir, files, nextId, faulted, uploaded, conc,
                 held, http>>

InitBoth == InitOn({"both"})

NextBoth ==
  \/ \E img \in Images : BothCreate(img)
  \/ BothAll
  \/ \E id \in ImageIds : BothGetImage(id)
  \/ \E id \in CallIds, p \in Points : BothUpdate(Item(id, p.x, p.y, p.width))
  \/ \E id, t \in CallIds : BothMoveBefore(id, t)
  \/ \E id, t \in CallIds : BothMoveAfter(id, t)
  \/ \E id \in CallIds : BothDelete(id)
  \/ BothReturn

SpecBoth == InitBoth /\ [][NextBoth]_vars

(***************************************************************************)
(* Restart: the process ends and main() constructs a new store.            *)
(***************************************************************************)
\* NewStore that starts from an emptied directory
FileNewStoreEmptied(fs) == NoFiles

\* file.NewStore(path): the store holds the path and nothing else, so it
\* finds in the directory whatever the old instance left there
FileNewStore(fs) == fs

\* memory.NewStore(): s.items is nil again
Restart ==
  /\ backend \in {"memory", "file"}
  /\ last.op = "idle"
  /\ prev' = Snapshot
  /\ last' = Call("Restart", "", "", NoPoint, << >>, "none", "ok", << >>, FALSE)
  /\ IF backend = "memory"
     THEN mitems' = << >> /\ mnil' = TRUE /\ UNCHANGED files
     ELSE files' = FileNewStore(files) /\ UNCHANGED <<mitems, mnil>>
  /\ held' = Detached(held)
  /\ UNCHANGED <<backend, fdir, nextId, faulted, uploaded, conc, twin, http>>

NextRestart ==
  \/ NextImage
  \/ Restart

SpecRestart == Init /\ [][NextRestart]_vars

(***************************************************************************)
(* A caller that keeps the list All() returned, and writes to it.          *)
(***************************************************************************)
\* an All() that returns s.items itself
ReturnedShared(items) == Held(items, TRUE, items)

\* items := make([]moodboard.Item, len(s.items)) and the loop that fills it:
\* a new array with the elements of s.items
Returned(items) == Held(items, FALSE, items)

\* All() of the volatile backend; the caller keeps the list
MemAllKept ==
  /\ Ready("memory")
  /\ prev' = Snapshot
  /\ last' = Call("All", "", "", NoPoint, << >>, "none", "ok",
                  MemAllRun(mitems, mnil).out, mnil)
  /\ held' = IF mnil THEN NoHeld ELSE Returned(MemItems)
  /\ UNCHANGED <<backend, mitems, mnil, fdir, files, nextId, faulted, uploaded, conc,
                 twin, http>>

\* All() of the durable backend; the decoder fills a slice of its own
FileAllKept ==
  /\ Ready("file")
  /\ FileStep("All", "", "", NoPoint, << >>, "none", FileAllRun(files, fdir, "none"))
  /\ held' = Held(FileAllRun(files, fdir, "none").out, FALSE,
                  FileAllRun(files, fdir, "none").out)
  /\ UNCHANGED <<nextId, uploaded, http>>

\* what the caller writes over an element of its list
Scribble == Item("x", 10, 10, 10)

\* the caller assigns to element i of the list it holds
CallerWrites(i) ==
  /\ last.op = "idle"
  /\ backend \in {"memory", "file"}
  /\ i \in 1..Len(held.items)
  /\ held.items[i] # Scribble
  /\ prev' = Snapshot
  /\ last' = Call("CallerWrites", "", "", NoPoint, << >>, "none", "ok", << >>, FALSE)
  /\ held' = [held EXCEPT !.items[i] = Scribble, !.orig[i] = Scribble]
  /\ mitems' = IF held.shares /\ i <= Len(mitems)
               THEN [mitems EXCEPT ![i].item = Scribble]
               ELSE mitems
  /\ UNCHANGED <<backend, mnil, fdir, files, nextId, faulted, uploaded, conc, twin, http>>

NextCopy ==
  \/ \E readFails \in BOOLEAN : nextId < MaxCopyCreates /\ MemCreate(EmptyImage, readFails)
  \/ nextId < MaxCopyCreates /\ FileCreate(EmptyImage, "none", 0)
  \/ MemAllKept
  \/ FileAllKept
  \/ \E i \in 1..MaxCopyCreates : CallerWrites(i)
  \/ MemCalls
  \/ FileCalls
  \/ Return

SpecCopy == Init /\ [][NextCopy]_vars

\* the part of a failing write that reached the file matters for two faults
PartsOf(fault) == IF fault \in {"encode", "imgwrite"} THEN Parts ELSE {0}

\* the calls of the durable backend on storage that fails at most once
NextFault ==
  \/ \E img \in Images, f \in CreateFaults \cup {"none"} : \E part \in PartsOf(f) :
       nextId < MaxFaultCreates /\ FileCreate(img, f, part)
  \/ \E f \in ReadFaults \cup {"none"} : FileAll(f)
  \/ \E id \in ImageIds, f \in ReadFaults \cup {"none"} : FileGetImage(id, f)
  \/ \E id \in CallIds, p \in Points, f \in UpdateFaults \cup {"none"} :
       \E part \in PartsOf(f) : FileUpdate(Item(id, p.x, p.y, p.width), f, part)
  \/ \E id, t \in CallIds, f \in RewriteFaults \cup {"none"} :
       \E part \in PartsOf(f) : FileMoveBefore(id, t, f, part)
  \/ \E id, t \in CallIds, f \in RewriteFaults \cup {"none"} :
       \E part \in PartsOf(f) : FileMoveAfter(id, t, f, part)
  \/ \E id \in CallIds, f \in RewriteFaults \cup {"none"} :
       \E part \in PartsOf(f) : FileDelete(id, f, part)
  \/ Return

SpecFault == InitFile /\ [][NextFault]_vars

(***************************************************************************)
(* The HTTP handler in front of the store.  A request is answered in one   *)
(* step: the checks of the handler, the call of the store if the request   *)
(* gets that far, and the response.                                        *)
(***************************************************************************)
JSONType == "application/json"
AllowHeader == "POST, GET, DELETE"

\* a handler that takes ErrNoSuchItem for any other error
StatusOfAnyError(res) == IF res = "ok" THEN 200 ELSE 500

\* the status a handler answers with for the store's result; a handler that
\* panics writes no status
StatusOf(res) ==
  IF res = "ok" THEN 200
  ELSE IF res = "ErrNoSuchItem" THEN 404
  ELSE IF res = "panic" THEN 0
  ELSE 500

\* list without the replacement of a nil list
ListBodyOfNil(out, outNil) == IF outNil THEN <<"null", "\n">> ELSE Encode(out)

\* list: es = make(..., 0) for a nil list, then json.NewEncoder(w).Encode(es)
ListBody(out, outNil) == Encode(out)

\* what the handler writes to the body after the store call c
BodyOf(c) ==
  IF c.res # "ok" THEN << >>
  ELSE IF c.op = "All" THEN ListBody(c.out, c.outNil)
  ELSE IF c.op = "Create" THEN <<c.id>>
  ELSE IF c.op = "GetImage" THEN c.out
  ELSE << >>

\* the handler returns without calling the store
Reject(req, fault, status, allow) ==
  /\ fault = "none"
  /\ http' = Response(req, status, allow, << >>, "")
  /\ UNCHANGED <<backend, mitems, mnil, fdir, files, nextId, faulted, uploaded,
                 prev, last, conc, twin, held>>

\* one call on the volatile backend: m is the outcome of its Run function
MemStep(op, id, ref, pos, img, fault, m) ==
  /\ fault = "none"
  /\ prev' = Snapshot
  /\ mitems' = m.mitems
  /\ mnil' = m.mnil
  /\ last' = Call(op, id, ref, pos, img, "none", m.res, m.out, m.outNil)
  /\ UNCHANGED <<backend, fdir, files, faulted, conc, twin>>

\* the handler calls the store (m on the volatile backend, r on the durable
\* one) and answers with its result
Answer(req, op, id, ref, pos, img, fault, m, r) ==
  /\ IF backend = "memory"
     THEN MemStep(op, id, ref, pos, img, fault, m)
     ELSE FileStep(op, id, ref, pos, img, fault, r)
  /\ http' = Response(req, StatusOf(last'.res), "", BodyOf(last'), op)
  /\ UNCHANGED held

\* the image reader of a create request fails while the volatile Create reads it
MemCreateFailed == MemRet(mitems, mnil, "error", << >>, FALSE)

move(req, fault, part, before) ==
  Answer(req, IF before THEN "MoveBefore" ELSE "MoveAfter", req.id,
         IF before THEN req.before ELSE req.after, NoPoint, << >>, fault,
         MemMoveRun(mitems, mnil,
                    FindIndexes(Ids(MemItems), req.id,
                                IF before THEN req.before ELSE req.after, 0, -1, -1),
                    before),
         FileMoveRun(files, fdir, req.id, IF before THEN req.before ELSE req.after,
                     before, fault, part))
  /\ UNCHANGED <<nextId, uploaded>>

\* move without the check that rejects a body naming both
HandleMoveBothAllowed(req, fault, part) ==
  IF req.ctype # JSONType THEN Reject(req, fault, 415, "")
  ELSE IF req.malformed THEN Reject(req, fault, 400, "")
  ELSE IF req.before # "" THEN move(req, fault, part, TRUE)
  ELSE IF req.after # "" THEN move(req, fault, part, FALSE)
  ELSE Reject(req, fault, 400, "")

\* Handler.move
HandleMove(req, fault, part) ==
  IF req.ctype # JSONType THEN Reject(req, fault, 415, "")
  ELSE IF req.malformed THEN Reject(req, fault, 400, "")
  ELSE IF req.before # "" /\ req.after # "" THEN Reject(req, fault, 400, "")
  ELSE IF req.before # "" THEN move(req, fault, part, TRUE)
  ELSE IF req.after # "" THEN move(req, fault, part, FALSE)
  ELSE Reject(req, fault, 400, "")

\* the types an upload may have; "G", "J" and "P" stand for the leading
\* bytes by which http.DetectContentType knows a GIF, a JPEG and a PNG file
validContentTypes == {"image/gif", "image/jpeg", "image/png"}

\* http.DetectContentType(buf)
DetectContentType(buf) ==
  IF buf = << >> THEN "text/plain; charset=utf-8"
  ELSE CASE buf[1] = "G" -> "image/gif"
         [] buf[1] = "J" -> "image/jpeg"
         [] buf[1] = "P" -> "image/png"
         [] OTHER -> "application/octet-stream"

\* the numbers of bytes one r.Read(buf) can return from the stream s: at
\* least one unless the stream is at its end, at most len(buf)
ReadSizes(s) == IF s = << >> THEN {0} ELSE 1..Min(SniffLen, Len(s))

\* a reader of the rest of the stream alone
MultiReaderWithoutPrefix(buf, rest) == rest

\* io.MultiReader(bytes.NewReader(buf), r): the bytes it yields when read
\* to the end
MultiReader(buf, rest) == buf \o rest

\* validateContentType(r) on the stream s whose Read returns n bytes, or
\* fails: the bytes of the reader it returns, isValid and whether err is set
validateContentType(s, n, readFails) ==
  IF readFails THEN << << >>, FALSE, TRUE >>
  ELSE << MultiReader(SubSeq(s, 1, n), SubSeq(s, n + 1, Len(s))),
          DetectContentType(SubSeq(s, 1, n)) \in validContentTypes,
          FALSE >>

\* Handler.create once the first part has been found: v is what
\* validateContentType returned
CreateValidated(req, fault, part, v) ==
  IF v[3] THEN Reject(req, fault, 500, "")
  ELSE IF ~v[2] THEN Reject(req, fault, 415, "")
  ELSE /\ nextId < MaxHttpCreates
       /\ IF backend = "memory"
          THEN /\ fault \in {"none", "read"}
               /\ MemStep("Create", IF fault = "read" THEN "" ELSE IdSeq[nextId + 1],
                          "", NoPoint, v[1], "none",
                          IF fault = "read" THEN MemCreateFailed
                          ELSE MemCreateRun(mitems, IdSeq[nextId + 1], v[1]))
               /\ IF fault = "read" THEN UNCHANGED <<nextId, uploaded>>
                  ELSE /\ nextId' = nextId + 1
                       /\ uploaded' = Put(uploaded, IdSeq[nextId + 1], req.img)
          ELSE /\ FileStep("Create", IdSeq[nextId + 1], "", NoPoint, v[1], fault,
                           FileCreateRun(files, fdir, IdSeq[nextId + 1], v[1],
                                         fault, part))
               /\ nextId' = nextId + 1
               /\ uploaded' = Put(uploaded, IdSeq[nextId + 1], req.img)
       /\ http' = Response(req, StatusOf(last'.res), "", BodyOf(last'), "Create")
       /\ UNCHANGED held

\* Handler.create; a fault "read" is the image reader failing in the
\* volatile Create
HandleCreate(req, fault, part) ==
  IF req.upload = "notMultipart" THEN Reject(req, fault, 415, "")
  ELSE IF req.upload \in {"badRequest", "badPart"} THEN Reject(req, fault, 400, "")
  ELSE \E n \in ReadSizes(req.img) :
         CreateValidated(req, fault, part,
                         validateContentType(req.img, n, req.upload = "readError"))

\* Handler.image
HandleImage(req, fault) ==
  Answer(req, "GetImage", req.id, "", NoPoint, << >>, fault,
         MemGetImageRun(mitems, mnil, MemFindImage(mitems, req.id, 0)),
         FileGetImageRun(files, fdir, req.id, fault))
  /\ UNCHANGED <<nextId, uploaded>>

\* Handler.list
HandleList(req, fault) ==
  Answer(req, "All", "", "", NoPoint, << >>, fault,
         MemAllRun(mitems, mnil), FileAllRun(files, fdir, fault))
  /\ UNCHANGED <<nextId, uploaded>>

\* Handler.delete
HandleDelete(req, fault, part) ==
  IF req.ctype # JSONType THEN Reject(req, fault, 415, "")
  ELSE IF req.malformed THEN Reject(req, fault, 400, "")
  ELSE IF req.itemId = "" THEN Reject(req, fault, 400, "")
  ELSE Answer(req, "Delete", req.itemId, "", NoPoint, << >>, fault,
              MemDeleteRun(mitems, mnil, MemRemaining(mitems, req.itemId)),
              FileDeleteRun(files, fdir, req.itemId, fault, part))
       /\ UNCHANGED <<nextId, uploaded>>

\* a handler whose switch sends PUT to delete
ServeHTTPWithPut(req, fault, part) ==
  /\ last.op = "idle"
  /\ http = NoResponse
  /\ backend \in {"memory", "file"}
  /\ IF req.method = "POST"
     THEN IF req.route = "move" THEN HandleMove(req, fault, part)
          ELSE HandleCreate(req, fault, part)
     ELSE IF req.method = "GET"
     THEN IF req.route = "image" THEN HandleImage(req, fault)
          ELSE HandleList(req, fault)
     ELSE IF req.method \in {"DELETE", "PUT"} THEN HandleDelete(req, fault, part)
     ELSE Reject(req, fault, 405, AllowHeader)

\* Handler.ServeHTTP
ServeHTTP(req, fault, part) ==
  /\ last.op = "idle"
  /\ http = NoResponse
  /\ backend \in {"memory", "file"}
  /\ IF req.method = "POST"
     THEN IF req.route = "move" THEN HandleMove(req, fault, part)
          ELSE HandleCreate(req, fault, part)
     ELSE IF req.method = "GET"
     THEN IF req.route = "image" THEN HandleImage(req, fault)
          ELSE HandleList(req, fault)
     ELSE IF req.method = "DELETE" THEN HandleDelete(req, fault, part)
     ELSE Reject(req, fault, 405, AllowHeader)

\* the response has been sent
HttpReturn ==
  /\ http # NoResponse
  /\ http' = NoResponse
  /\ last' = Idle
  /\ prev' = Snapshot
  /\ UNCHANGED <<backend, mitems, mnil, fdir, files, nextId, faulted, uploaded, conc,
                 twin, held>>

\* the requests: for each handler the fields it reads vary
HttpIds == {IdSeq[i] : i \in 1..MaxHttpCreates}
BodyIds == HttpIds \cup {""}
ContentTypes == {JSONType, "text/plain"}
Uploads == {"ok", "notMultipart", "badRequest", "badPart", "readError"}
\* uploads that are image files, shorter and longer than the sniffed prefix
ImageFiles == {<<"G">>, <<"P", "x", "y">>}
HttpImages == Images \cup ImageFiles
MoveRequests ==
  {Request("POST", "move", id, ct, FALSE, b, a, "", NoPoint, "", << >>) :
     id \in HttpIds, ct \in ContentTypes, b \in BodyIds, a \in BodyIds}
    \cup {Request("POST", "move", id, ct, TRUE, "", "", "", NoPoint, "", << >>) :
            id \in HttpIds, ct \in ContentTypes}
CreateRequests ==
  {Request("POST", "root", "", "multipart/form-data", FALSE, "", "", "", NoPoint,
           "ok", img) : img \in HttpImages}
    \cup {Request("POST", "root", "", "multipart/form-data", FALSE, "", "", "", NoPoint,
                  up, <<"G">>) : up \in Uploads}
    \cup {Request("POST", "image", "", "text/plain", FALSE, "", "", "", NoPoint,
                  "notMultipart", << >>)}
ImageRequests ==
  {Request("GET", "image", id, "", FALSE, "", "", "", NoPoint, "", << >>) :
     id \in HttpIds \cup {IndexName}}
ListRequests ==
  {Request("GET", rt, "", "", FALSE, "", "", "", NoPoint, "", << >>) :
     rt \in {"root", "move"}}
DeleteRequests ==
  {Request("DELETE", rt, "", ct, FALSE, "", "", id, NoPoint, "", << >>) :
     rt \in {"root", "move"}, ct \in ContentTypes, id \in BodyIds}
    \cup {Request("DELETE", "root", "", ct, TRUE, "", "", "", NoPoint, "", << >>) :
            ct \in ContentTypes}
OtherRequests ==
  {Request(m, rt, "", JSONType, FALSE, "", "", IdSeq[1], NoPoint, "", << >>) :
     m \in {"PUT", "PATCH", "HEAD"}, rt \in {"root", "move", "image"}}
Requests ==
  MoveRequests \cup CreateRequests \cup ImageRequests \cup ListRequests
    \cup DeleteRequests \cup OtherRequests

(***************************************************************************)
(* The handler of the revision whose items have coordinates: PUT updates.  *)
(***************************************************************************)
\* a coordinate within [0, 1], in tenths
InUnit(v) == v >= 0 /\ v <= 10
\* the item of an update request
EntryOf(req) == Item(req.itemId, req.pos.x, req.pos.y, req.pos.width)

\* update without the range check
HandleUpdateUnchecked(req, fault, part) ==
  IF req.ctype # JSONType THEN Reject(req, fault, 415, "")
  ELSE IF req.malformed THEN Reject(req, fault, 400, "")
  ELSE Answer(req, "Update", req.itemId, "", req.pos, << >>, fault,
              MemUpdateRun(mitems, mnil, ReplaceFirst(MemItems, EntryOf(req), 0)),
              FileUpdateRun(files, fdir, EntryOf(req), fault, part))
       /\ UNCHANGED <<nextId, uploaded>>

\* handler.update
HandleUpdate(req, fault, part) ==
  IF req.ctype # JSONType THEN Reject(req, fault, 415, "")
  ELSE IF req.malformed THEN Reject(req, fault, 400, "")
  ELSE IF ~(InUnit(req.pos.x) /\ InUnit(req.pos.y) /\ InUnit(req.pos.width))
  THEN Reject(req, fault, 400, "")
  ELSE Answer(req, "Update", req.itemId, "", req.pos, << >>, fault,
              MemUpdateRun(mitems, mnil, ReplaceFirst(MemItems, EntryOf(req), 0)),
              FileUpdateRun(files, fdir, EntryOf(req), fault, part))
       /\ UNCHANGED <<nextId, uploaded>>

\* handler.ServeHTTP of that revision
ServeHTTPUpdate(req, fault, part) ==
  /\ last.op = "idle"
  /\ http = NoResponse
  /\ backend \in {"memory", "file"}
  /\ IF req.method = "POST"
     THEN nextId < MaxUpdateCreates /\ HandleCreate(req, fault, part)
     ELSE IF req.method = "GET" THEN HandleList(req, fault)
     ELSE IF req.method = "PUT" THEN HandleUpdate(req, fault, part)
     ELSE IF req.method = "DELETE" THEN HandleDelete(req, fault, part)
     ELSE Reject(req, fault, 405, AllowHeader)

\* the coordinates of update requests: those of Points, and one out of range
\* on either side for each field
UpdatePoints ==
  Points \cup {[x |-> -1, y |-> 0, width |-> 0], [x |-> 11, y |-> 10, width |-> 7],
               [x |-> 0, y |-> -1, width |-> 0], [x |-> 5, y |-> 11, width |-> 7],
               [x |-> 0, y |-> 0, width |-> -1], [x |-> 5, y |-> 10, width |-> 11]}
UpdateRequests ==
  {Request("PUT", "root", "", ct, mal, "", "", id, pos, "", << >>) :
     ct \in ContentTypes, mal \in BOOLEAN, id \in BodyIds, pos \in UpdatePoints}
UploadRequests ==
  {Request("POST", "root", "", "multipart/form-data", FALSE, "", "", "", NoPoint,
           "ok", img) : img \in ImageFiles}
RemoveRequests ==
  {Request("DELETE", "root", "", JSONType, FALSE, "", "", id, NoPoint, "", << >>) :
     id \in HttpIds}
RequestsUpdate ==
  UpdateRequests \cup UploadRequests \cup RemoveRequests
    \cup {Request("GET", "root", "", "", FALSE, "", "", "", NoPoint, "", << >>),
          Request("PATCH", "root", "", JSONType, FALSE, "", "", IdSeq[1], NoPoint,
                  "", << >>)}

NextUpdate ==
  \/ \E req \in RequestsUpdate, f \in UpdateFaults \cup {"none"} :
       \E part \in PartsOf(f) : ServeHTTPUpdate(req, f, part)
  \/ HttpReturn

SpecUpdate == Init /\ [][NextUpdate]_vars

\* the failures of the store the handler meets: index.json cannot be opened
\* or closed, the upload cannot be read
HttpFaults == {"open", "close", "read"}

NextHttp ==
  \/ \E req \in Requests, f \in HttpFaults \cup {"none"} :
       \E part \in PartsOf(f) : ServeHTTP(req, f, part)
  \/ HttpReturn

SpecHttp == Init /\ [][NextHttp]_vars

(***************************************************************************)
(* Every move on every list: the store holds 1..MaxMoveLen items, created  *)
(* in order, and any item is moved before or after any item.               *)
(***************************************************************************)
MoveIds == {IdSeq[i] : i \in 1..MaxMoveLen}
\* the list after n calls of Create
CreatedItems(n) == [i \in 1..n |-> NewItem(IdSeq[i])]
\* the directory after n calls of Create with the empty image
CreatedFiles(n) ==
  [name \in {IdSeq[i] : i \in 1..n} \cup {IndexName} |->
     IF name = IndexName THEN Encode(CreatedItems(n)) ELSE EmptyImage]

InitMove ==
  /\ backend \in {"memory", "file"}
  /\ nextId \in 1..MaxMoveLen
  /\ mitems = IF backend = "memory"
              THEN [i \in 1..nextId |-> [item |-> NewItem(IdSeq[i]), image |-> EmptyImage]]
              ELSE << >>
  /\ mnil = (backend # "memory")
  /\ fdir = (backend = "file")
  /\ files = IF backend = "file" THEN CreatedFiles(nextId) ELSE NoFiles
  /\ faulted = FALSE
  /\ prev = Snapshot
  /\ uploaded = [name \in {IdSeq[i] : i \in 1..nextId} |-> EmptyImage]
  /\ last = Idle
  /\ mutex = Unlocked
  /\ calls = [g \in Goroutines |-> NoCall]
  /\ serial = << >>
  /\ stable = << >>
  /\ seen = [g \in Goroutines |-> {}]
  /\ twin = Idle
  /\ held = NoHeld
  /\ http = NoResponse

NextMove ==
  \/ \E id, t \in MoveIds : MemMoveBefore(id, t)
  \/ \E id, t \in MoveIds : MemMoveAfter(id, t)
  \/ \E id, t \in MoveIds : FileMoveBefore(id, t, "none", 0)
  \/ \E id, t \in MoveIds : FileMoveAfter(id, t, "none", 0)
  \/ Return

SpecMove == InitMove /\ [][NextMove]_vars

(***************************************************************************)
(* What a call saw and what it left.                                       *)
(***************************************************************************)
\* the list All() returns on the store s (a Snapshot) of the running backend
CollectionOf(s) ==
  IF backend = "memory" THEN MemAllOf(s.mitems)
  ELSE FileAllRun(s.files, s.fdir, "none").out
\* the collection when the last call started, and the collection now
Before == CollectionOf(prev)
Now == CollectionOf(Snapshot)

Present(items, id) == \E i \in 1..Len(items) : items[i].id = id
PosOf(items, id) == CHOOSE i \in 1..Len(items) : items[i].id = id
Without(items, id) == SelectSeq(items, LAMBDA it : it.id # id)
Count(items, it) == Cardinality({i \in 1..Len(items) : items[i] = it})
Elems(items) == {items[i] : i \in 1..Len(items)}
IsPermutation(a, b) ==
  /\ Len(a) = Len(b)
  /\ \A it \in Elems(a) \cup Elems(b) : Count(a, it) = Count(b, it)
Moved == last.op \in {"MoveBefore", "MoveAfter"}

(***************************************************************************)
(* Move                                                                    *)
(***************************************************************************)
\* C1: after a successful MoveBefore(id, beforeID) with id # beforeID, both
\* present, id sits immediately before beforeID in All(), and the items other
\* than id keep their relative order.
MoveBeforePlacesItem ==
  (last.op = "MoveBefore" /\ last.res = "ok" /\ last.id # last.ref
     /\ Present(Before, last.id) /\ Present(Before, last.ref))
  => /\ Present(Now, last.id) /\ Present(Now, last.ref)
     /\ PosOf(Now, last.id) + 1 = PosOf(Now, last.ref)
     /\ Without(Now, last.id) = Without(Before, last.id)

\* a MoveBefore that changed the order of a three-item list
MoveBeforeWitness ==
  /\ last.op = "MoveBefore" /\ last.res = "ok" /\ last.id # last.ref
  /\ Len(Before) = 3 /\ Now # Before
  /\ PosOf(Before, last.id) > PosOf(Before, last.ref)

\* C2: after a successful MoveAfter(id, afterID) with id # afterID, both
\* present, id sits immediately after afterID in All(), and the items other
\* than id keep their relative order.
MoveAfterPlacesItem ==
  (last.op = "MoveAfter" /\ last.res = "ok" /\ last.id # last.ref
     /\ Present(Before, last.id) /\ Present(Before, last.ref))
  => /\ Present(Now, last.id) /\ Present(Now, last.ref)
     /\ PosOf(Now, last.id) = PosOf(Now, last.ref) + 1
     /\ Without(Now, last.id) = Without(Before, last.id)

\* a MoveAfter that carried the first of three items to the end
MoveAfterWitness ==
  /\ last.op = "MoveAfter" /\ last.res = "ok" /\ last.id # last.ref
  /\ Len(Before) = 3 /\ Now # Before
  /\ PosOf(Before, last.id) = 1 /\ PosOf(Now, last.id) = 3

\* C3: a successful MoveBefore or MoveAfter leaves a permutation of the
\* collection: same length, every item exactly as often as before, no ID twice.
MoveIsPermutation ==
  (Moved /\ last.res = "ok")
  => /\ IsPermutation(Before, Now)
     /\ NoDup(Ids(Now))

\* a successful move across one item of a three-item list
MovePermutationWitness ==
  /\ Moved /\ last.res = "ok" /\ Len(Before) = 3
  /\ Present(Before, last.id) /\ Present(Before, last.ref)
  /\ PosOf(Before, last.id) - PosOf(Before, last.ref) \in {2, -2}

\* C4: MoveBefore(id, id) and MoveAfter(id, id) for a present id return no
\* error and leave the order of All() unchanged.
MoveToSelfIsNoOp ==
  (Moved /\ last.id = last.ref /\ Present(Before, last.id))
  => /\ last.res = "ok"
     /\ Now = Before

\* an item of a list of at least two moved relative to itself
MoveToSelfWitness ==
  /\ Moved /\ last.id = last.ref /\ Present(Before, last.id)
  /\ Len(Before) >= 2 /\ last.res = "ok"

\* C5: MoveBefore and MoveAfter return ErrNoSuchItem when the moved ID or the
\* reference ID (or both) is absent, and the collection is what it was.
MoveAbsentIsNoSuchItem ==
  (Moved /\ (~Present(Before, last.id) \/ ~Present(Before, last.ref)))
  => /\ last.res = "ErrNoSuchItem"
     /\ Now = Before
     /\ mitems = prev.mitems /\ files = prev.files

\* a present item moved relative to an absent one in a non-empty list
MoveAbsentWitness ==
  /\ Moved /\ last.res = "ErrNoSuchItem"
  /\ Present(Before, last.id) /\ ~Present(Before, last.ref)
  /\ Len(Before) >= 2

(***************************************************************************)
(* Delete, Update, GetImage                                                *)
(***************************************************************************)
\* C6: a successful Delete(id) removes exactly the record with that id: All()
\* is the previous list without that one element, the others in their
\* previous order with their fields unchanged.
DeleteRemovesOneRecord ==
  (last.op = "Delete" /\ last.res = "ok")
  => /\ Present(Before, last.id)
     /\ Len(Now) = Len(Before) - 1
     /\ Now = Without(Before, last.id)

\* the middle one of three items deleted, one of the others with changed fields
DeleteWitness ==
  /\ last.op = "Delete" /\ last.res = "ok"
  /\ Len(Before) = 3 /\ PosOf(Before, last.id) = 2
  /\ \E i \in 1..Len(Now) : Now[i].x # 0

\* C7 as claimed: after a successful Delete(id) on the durable backend no
\* image file for id remains in the directory.
DeleteRemovesImage ==
  (backend = "file" /\ last.op = "Delete" /\ last.res = "ok")
  => last.id \notin DOMAIN files

\* C8: Update, Delete and GetImage with an ID that is not in the collection
\* return ErrNoSuchItem and leave the collection as it was.
AbsentIdIsNoSuchItem ==
  (last.op \in {"Update", "Delete", "GetImage"} /\ ~Present(Before, last.id))
  => /\ last.res = "ErrNoSuchItem"
     /\ Now = Before
     /\ mitems = prev.mitems /\ files = prev.files

\* an Update naming an absent ID on a non-empty collection
AbsentIdWitness ==
  /\ last.op = "Update" /\ last.res = "ErrNoSuchItem"
  /\ Len(Before) >= 1 /\ ~Present(Before, last.id)
  /\ last.pos.x # 0

\* C9: for an item created by Create(img) and not deleted since, GetImage
\* returns exactly the bytes of img, whatever happened to other items.
GetImageReturnsUpload ==
  (last.op = "GetImage" /\ Present(Before, last.id))
  => /\ last.res = "ok"
     /\ last.id \in DOMAIN uploaded
     /\ last.out = uploaded[last.id]

\* the image of an item read back after a later-created item with other bytes
\* was created and the order changed or an earlier item was deleted
GetImageWitness ==
  /\ last.op = "GetImage" /\ last.res = "ok" /\ last.out # << >>
  /\ Len(Before) >= 2 /\ Before[1].id # IdSeq[1]
  /\ \E i \in 1..Len(Before) :
       /\ Before[i].id # last.id
       /\ uploaded[Before[i].id] # uploaded[last.id]
       /\ PosOf(Before, last.id) > i

\* C10: GetImage returns a stream only for an ID that is in the index; for an
\* ID that is not, it returns ErrNoSuchItem and no stream, even when a file of
\* that name exists.
GetImageOnlyFromIndex ==
  last.op = "GetImage"
  => /\ last.res = "ok" => Present(Before, last.id)
     /\ ~Present(Before, last.id)
          => (last.res = "ErrNoSuchItem" /\ last.out = << >>)

\* GetImage on the durable backend for the index document's own name, and for
\* a deleted item whose file is still in the directory
GetImageIndexNameWitness ==
  /\ backend = "file" /\ last.op = "GetImage"
  /\ last.id = IndexName /\ IndexName \in DOMAIN files
  /\ Len(Before) >= 1 /\ last.res = "ErrNoSuchItem"

(***************************************************************************)
(* Create                                                                  *)
(***************************************************************************)
\* C11: a successful Create returns an item with an ID no record had and zero
\* x, y and width, and All() afterwards is the previous list with that item
\* added at the end; no existing record changes.
CreateAppendsNewItem ==
  (last.op = "Create" /\ last.res = "ok")
  => /\ ~Present(Before, last.id)
     /\ last.out = <<Item(last.id, 0, 0, 0)>>
     /\ Now = Append(Before, Item(last.id, 0, 0, 0))

\* a Create on a list of two whose order is no longer the creation order and
\* one of whose items has been given a position
CreateWitness ==
  /\ last.op = "Create" /\ last.res = "ok"
  /\ Len(Before) = 2 /\ Before[1].id # IdSeq[1]
  /\ \E i \in 1..Len(Before) : Before[i].x # 0
  /\ Len(Now) = 3

\* C12 as claimed: when Create on the durable backend returns an error, no
\* file named by the new ID is left in the directory.
FailedCreateLeavesNoImage ==
  (backend = "file" /\ last.op = "Create" /\ last.res # "ok")
  => last.id \notin DOMAIN files

(***************************************************************************)
(* Failures of the durable backend                                         *)
(***************************************************************************)
\* C13 as claimed: when a mutating call of the durable backend returns an
\* error because opening, decoding, seeking, encoding, truncating or closing
\* index.json failed, index.json holds the bytes it held before the call.
FailedWriteKeepsIndex ==
  (backend = "file" /\ last.op \in Mutating /\ last.res = "error"
     /\ last.fault \in {"open", "decode", "seek", "encode", "tell", "truncate", "close"})
  => IndexDocument(files) = IndexDocument(prev.files)

(***************************************************************************)
(* Several goroutines                                                      *)
(***************************************************************************)
\* goroutine g is between taking the mutex and releasing it
InCritical(g) == calls[g].pc \in {"load", "store1", "store2", "read"}
WritersIn == {g \in Goroutines : InCritical(g) /\ calls[g].op \in Mutating}
ReadersIn == {g \in Goroutines : InCritical(g) /\ calls[g].op \in {"All", "GetImage"}}

\* C14: at most one of Create, Update, Delete, MoveBefore, MoveAfter is in
\* its critical section at any time, and while one is, no All or GetImage is
\* in its critical section.
WritersExclude ==
  /\ Cardinality(WritersIn) <= 1
  /\ WritersIn # {} => ReadersIn = {}

\* a mutation half-way through its write while a reader waits for the mutex
WritersExcludeWitness ==
  \E g, h \in Goroutines :
    /\ calls[g].pc = "store2" /\ calls[g].op \in {"MoveBefore", "MoveAfter"}
    /\ calls[h].pc = "lock" /\ calls[h].op = "All"

\* C15: the list an All() returns is the collection as it stood before or
\* after the mutations in progress when it read, never a list in between.
AllIsNeverTorn ==
  \A g \in Goroutines :
    (calls[g].op = "All" /\ calls[g].pc = "done")
    => /\ calls[g].res = "ok"
       /\ calls[g].out \in seen[g]

\* an All() that has read two items and has not returned yet while a
\* mutation has written half of its change
AllOverlapWitness ==
  \E g, h \in Goroutines :
    /\ calls[g].op = "All" /\ calls[g].pc = "done" /\ Len(calls[g].out) = 2
    /\ calls[h].op \in Mutating /\ calls[h].pc = "store2"
    /\ Now # serial

\* C16: whenever no mutation is in its critical section, the collection is
\* what the mutations so far give when applied one after another in the order
\* in which they took the write lock; no Create is lost.
MutationsAreSerial ==
  WritersIn = {} => Now = serial

\* both Creates have returned and both items are there, while the mutation
\* of another goroutine waits for the mutex
ConcurrentCreatesWitness ==
  /\ WritersIn = {} /\ Len(serial) = 2 /\ Len(Now) = 2
  /\ \E g \in Goroutines : calls[g].op = "Delete" /\ calls[g].pc = "lock"

\* C17: on a store nothing was created on, All() returns the empty list
\* without error and Update, Delete, GetImage, MoveBefore and MoveAfter return
\* ErrNoSuchItem, whether index.json is missing or empty; none of these calls
\* creates index.json or changes the directory.
FreshStoreIsEmpty ==
  (nextId = 0 /\ last.op \notin {"idle", "Create"})
  => /\ last.op = "All" => (last.res = "ok" /\ last.out = << >>)
     /\ last.op # "All" => last.res = "ErrNoSuchItem"
     /\ files = prev.files
     /\ IndexName \in DOMAIN files => IndexName \in DOMAIN prev.files
     /\ Now = << >>

FreshStoreWitness ==
  /\ backend = "file" /\ nextId = 0
  /\ IndexName \in DOMAIN prev.files /\ prev.files[IndexName] = << >>
  /\ last.op = "MoveAfter" /\ last.res = "ErrNoSuchItem"

\* what GetImage(id) gives on the store s: whether it succeeds, and the bytes
GetImageOf(s, id) ==
  IF backend = "memory"
  THEN <<MemFindImage(s.mitems, id, 0).found, MemFindImage(s.mitems, id, 0).image>>
  ELSE <<FileGetImageRun(s.files, s.fdir, id, "none").res = "ok",
         FileGetImageRun(s.files, s.fdir, id, "none").out>>

\* C18: a successful Update(item) leaves the collection with the same length
\* and the same IDs in the same order; the record with item's ID has the
\* supplied x, y and width, every other record is as before, and GetImage
\* gives for every ID what it gave before.
UpdateReplacesFields ==
  (last.op = "Update" /\ last.res = "ok")
  => /\ Len(Now) = Len(Before)
     /\ Ids(Now) = Ids(Before)
     /\ \A i \in 1..Len(Before) :
          Now[i] = IF Before[i].id = last.id
                   THEN Item(last.id, last.pos.x, last.pos.y, last.pos.width)
                   ELSE Before[i]
     /\ \A id \in ImageIds : GetImageOf(Snapshot, id) = GetImageOf(prev, id)

\* an Update that changed the second of two records, one with a non-empty
\* image
UpdateWitness ==
  /\ last.op = "Update" /\ last.res = "ok"
  /\ Len(Before) = 2 /\ Before[2].id = last.id
  /\ Before[1].x # 0 /\ Now[2].width # Before[2].width
  /\ GetImageOf(prev, last.id)[2] # << >>

\* C19: given the same calls on storage that does not fail, the durable and
\* the volatile store return the same outcome for every call (success,
\* ErrNoSuchItem or any other), the same list from All(), nil or not alike,
\* and the same bytes from GetImage.
BackendsAgree ==
  (backend = "both" /\ last.op # "idle")
  => /\ last.op = twin.op /\ last.id = twin.id
     /\ last.res = twin.res
     /\ last.op \in {"All", "GetImage"} => last.out = twin.out
     /\ last.op = "All" => last.outNil = twin.outNil

\* GetImage on both stores for an item that was deleted after a second one
\* with a non-empty image was created
BackendsAgreeWitness ==
  /\ backend = "both" /\ last.op = "GetImage" /\ last.res = "ErrNoSuchItem"
  /\ last.id \in DOMAIN files /\ last.id # IndexName
  /\ Len(mitems) = 1 /\ mitems[1].image # << >> /\ mitems[1].item.x # 0

\* C20: a store constructed on the path of a durable store (a restart)
\* returns from All() the list the old instance returned, in the same order
\* with the same field values, and from GetImage the same bytes for every ID.
RestartKeepsCollection ==
  (backend = "file" /\ last.op = "Restart")
  => /\ Now = Before
     /\ FileAllRun(files, fdir, "none") = FileAllRun(prev.files, prev.fdir, "none")
     /\ \A id \in ImageIds : GetImageOf(Snapshot, id) = GetImageOf(prev, id)

\* a restart of a durable store holding two items in changed order, one
\* updated, one with a non-empty image
RestartWitness ==
  /\ backend = "file" /\ last.op = "Restart"
  /\ Len(Before) = 2 /\ Before[1].id = IdSeq[2]
  /\ Before[1].x # 0 /\ GetImageOf(prev, IdSeq[1])[2] # << >>
  /\ Len(Now) = 2

\* C21: a list All() returned is a copy: whatever the store does afterwards
\* (Create, Update, Delete, MoveBefore, MoveAfter), the list holds what the
\* caller last saw or wrote there, and a write of the caller to the list
\* changes neither what All() returns nor any image.
AllReturnsCopy ==
  /\ held.items = held.orig
  /\ last.op = "CallerWrites"
       => /\ Now = Before
          /\ \A id \in ImageIds : GetImageOf(Snapshot, id) = GetImageOf(prev, id)

\* the volatile store has moved an item after the caller got a list of two
AllReturnsCopyWitness ==
  /\ backend = "memory" /\ Moved /\ last.res = "ok" /\ Now # Before
  /\ Len(held.items) = 2 /\ held.items = Before

(***************************************************************************)
(* The HTTP handler                                                        *)
(***************************************************************************)
IsMoveRequest == http.req.method = "POST" /\ http.req.route = "move"
\* the handler answered without any call of the store
NoStoreCall == http.called = "" /\ last = Idle
\* the body of the move request names exactly one of before and after
OneOfBeforeAfter ==
  /\ ~http.req.malformed
  /\ (http.req.before # "") # (http.req.after # "")
\* the call the handler made for the move request
MoveDispatched ==
  IF http.req.before # ""
  THEN /\ http.called = "MoveBefore" /\ last.op = "MoveBefore"
       /\ last.id = http.req.id /\ last.ref = http.req.before
  ELSE /\ http.called = "MoveAfter" /\ last.op = "MoveAfter"
       /\ last.id = http.req.id /\ last.ref = http.req.after

\* C22 as stated: a POST /move/{id} request reaches the store only when
\* exactly one of before and after is non-empty (MoveBefore(id, before) or
\* MoveAfter(id, after)); with both or neither, or a malformed body, the
\* answer is 400 and no store operation is called.
MoveRejectedAlways400 ==
  IsMoveRequest
  => /\ http.called # "" => (OneOfBeforeAfter /\ MoveDispatched)
     /\ ~OneOfBeforeAfter => (http.status = 400 /\ NoStoreCall)

\* C22 as amended: a POST /move/{id} request reaches the store only when its
\* Content-Type is application/json and exactly one of before and after is
\* non-empty (MoveBefore(id, before) or MoveAfter(id, after)); with another
\* Content-Type the answer is 415, and with Content-Type application/json
\* and both or neither, or a malformed body, the answer is 400; in both
\* cases no store operation is called.
MoveDispatch ==
  IsMoveRequest
  => /\ http.called # ""
          => (http.req.ctype = JSONType /\ OneOfBeforeAfter /\ MoveDispatched)
     /\ http.req.ctype # JSONType => (http.status = 415 /\ NoStoreCall)
     /\ (http.req.ctype = JSONType /\ ~OneOfBeforeAfter)
          => (http.status = 400 /\ NoStoreCall)

\* a move request naming only after was passed to MoveAfter, which moved
\* the item
MoveDispatchWitness ==
  /\ IsMoveRequest /\ http.called = "MoveAfter" /\ http.status = 200
  /\ http.req.before = "" /\ Now # Before

\* C23: for move, delete and image requests that reach the store the status
\* follows from the store's result alone: 200 when it returns no error, 404
\* when it returns ErrNoSuchItem, 500 for any other error.
StatusFromStoreResult ==
  http.called \in {"MoveBefore", "MoveAfter", "Delete", "GetImage"}
  => /\ last.op = http.called
     /\ last.res = "ok" => http.status = 200
     /\ last.res = "ErrNoSuchItem" => http.status = 404
     /\ last.res \notin {"ok", "ErrNoSuchItem"} => http.status = 500

\* a delete request for an ID the store does not hold, while it holds another
StatusFromStoreResultWitness ==
  /\ http.called = "Delete" /\ http.status = 404
  /\ last.res = "ErrNoSuchItem" /\ Len(Now) = 1

\* C24: a request whose method is not POST, GET or DELETE is answered 405
\* with the header Allow: POST, GET, DELETE and an empty body, and no store
\* operation is called.
OtherMethodNotAllowed ==
  (http # NoResponse /\ http.req.method \notin {"POST", "GET", "DELETE"})
  => /\ http.status = 405
     /\ http.allow = "POST, GET, DELETE"
     /\ http.body = << >>
     /\ http.called = "" /\ last = Idle

\* a PUT request naming an item the store holds
OtherMethodNotAllowedWitness ==
  /\ http.req.method = "PUT" /\ http.status = 405
  /\ Present(Now, http.req.itemId)

IsUpdateRequest == http.req.method = "PUT"
\* the coordinates of the update request are all within [0, 1]
RequestInRange ==
  InUnit(http.req.pos.x) /\ InUnit(http.req.pos.y) /\ InUnit(http.req.pos.width)
\* every record of the collection has its coordinates within [0, 1]
RecordsInRange ==
  \A i \in 1..Len(Now) :
    Now[i].x \in 0..10 /\ Now[i].y \in 0..10 /\ Now[i].width \in 0..10

\* the handler has decoded the body of the request
BodyDecoded == http.req.ctype = JSONType /\ ~http.req.malformed

IsListRequest == http.req.method = "GET" /\ http.req.route # "image"

\* C26: GET / answers 200 with the JSON array of what All() returned, in
\* that order, an empty array and never null when All() returned a nil or
\* empty list; when All() fails the answer is 500.
ListAnswersArray ==
  IsListRequest
  => /\ http.called = "All" /\ last.op = "All"
     /\ last.res = "ok"
          => /\ http.status = 200
             /\ http.body = Encode(last.out)
             /\ Decode(http.body).err = "nil" /\ Decode(http.body).items = last.out
             /\ last.out = << >> => http.body = <<"[", "]", "\n">>
     /\ last.res # "ok" => (http.status = 500 /\ http.body = << >>)

\* the list request met the volatile store before any Create: All()
\* returned nil
ListAnswersArrayWitness ==
  /\ IsListRequest /\ http.status = 200
  /\ last.outNil /\ http.body = <<"[", "]", "\n">>

(***************************************************************************)
(* The index document                                                      *)
(***************************************************************************)
\* C27: after every successful write of the durable backend (Create, Update,
\* Delete, MoveBefore, MoveAfter) the index document is exactly the encoding
\* of the new list: no bytes of an earlier, longer encoding follow it.
IndexIsExactEncoding ==
  (backend = "file" /\ last.op \in Mutating /\ last.res = "ok")
  => /\ IndexName \in DOMAIN files
     /\ files[IndexName] = Encode(Now)

\* C28: between the operations of the durable backend, also after one that
\* returned an error, every ID the index records has an image file: a failed
\* Create leaves no record whose image it removed.
IndexedIdsHaveImages ==
  (backend = "file" /\ last.op = "idle")
  => \A i \in 1..Len(Now) : Now[i].id \in DOMAIN files /\ Now[i].id # IndexName

(***************************************************************************)
(* Unique IDs                                                              *)
(***************************************************************************)
\* the positions at which the collection differs from the one before the call
ChangedAt == {i \in 1..Len(Now) : i > Len(Before) \/ Now[i] # Before[i]}

\* C29: the IDs of the collection are pairwise distinct in every reachable
\* state; hence a successful Delete makes the collection shorter by exactly
\* one, and a successful Update changes the one record that has the ID and
\* no other.
IdsDistinct ==
  /\ \A i, j \in 1..Len(Now) : Now[i].id = Now[j].id => i = j
  /\ (last.op = "Delete" /\ last.res = "ok") => Len(Now) = Len(Before) - 1
  /\ (last.op = "Update" /\ last.res = "ok")
       => /\ Len(Now) = Len(Before)
          /\ Cardinality({i \in 1..Len(Before) : Before[i].id = last.id}) = 1
          /\ ChangedAt \subseteq {i \in 1..Len(Before) : Before[i].id = last.id}

(***************************************************************************)
(* Bounds of move                                                          *)
(***************************************************************************)
\* the positions the loop of move found for the last call
FoundBefore == FindIndexes(Ids(Before), last.id, last.ref, 0, -1, -1)
\* the target of the last call after the adjustment for before / after
AdjustedTarget ==
  AdjustTarget(FoundBefore.index, FoundBefore.target, last.op = "MoveBefore")

\* C30: for every list of n >= 1 items and every index and target in
\* 0..n-1, moving before and moving after, the adjusted target stays within
\* 0..n-1 and every slice range move copies or writes lies within the list:
\* move reads and writes nothing out of bounds.
MoveStaysInBounds ==
  (Moved /\ FoundBefore.index # -1 /\ FoundBefore.target # -1)
  => /\ last.res = "ok"
     /\ AdjustedTarget \in 0..(Len(Before) - 1)
     /\ FoundBefore.index < FoundBefore.target
          => /\ FoundBefore.index + 1 <= AdjustedTarget + 1
             /\ AdjustedTarget + 1 <= Len(Before)
     /\ FoundBefore.index > FoundBefore.target
          => /\ AdjustedTarget + 1 <= Len(Before)
             /\ AdjustedTarget <= FoundBefore.index
     /\ Len(Now) = Len(Before)
     /\ Now[AdjustedTarget + 1].id = last.id

\* the first of at least four items was moved before the last one
MoveStaysInBoundsWitness ==
  /\ Moved /\ last.op = "MoveBefore" /\ last.res = "ok"
  /\ Len(Before) >= 4
  /\ Before[1].id = last.id /\ Before[Len(Before)].id = last.ref
  /\ AdjustedTarget = Len(Before) - 2

(***************************************************************************)
(* Repeating a move                                                        *)
(***************************************************************************)
\* the collection after the last call is made once more on the store as it is
\* now
SameMoveAgain ==
  IF backend = "memory"
  THEN MemAllOf(MemMoveRun(mitems, mnil,
                           FindIndexes(Ids(MemItems), last.id, last.ref, 0, -1, -1),
                           last.op = "MoveBefore").mitems)
  ELSE FileAllRun(FileMoveRun(files, fdir, last.id, last.ref,
                              last.op = "MoveBefore", "none", 0).files,
                  fdir, "none").out
\* before the last call the item id already was where the call puts it:
\* immediately before the reference for MoveBefore, immediately after it for
\* MoveAfter
AlreadyInPlace ==
  /\ Present(Before, last.id) /\ Present(Before, last.ref)
  /\ PosOf(Before, last.id)
       = PosOf(Before, last.ref) + (IF last.op = "MoveBefore" THEN -1 ELSE 1)

\* C31: MoveBefore and MoveAfter are idempotent: the same successful move
\* made a second time leaves the order the first one gave; a MoveBefore of
\* an item that is immediately before its reference, and a MoveAfter of one
\* immediately after it, leave the order unchanged.
MoveIdempotent ==
  (Moved /\ last.res = "ok")
  => /\ SameMoveAgain = Now
     /\ AlreadyInPlace => Now = Before

\* the durable store moved the first of at least three items after the last:
\* the first move changed the order
MoveIdempotentWitness ==
  /\ backend = "file" /\ last.op = "MoveAfter" /\ last.res = "ok"
  /\ Len(Before) >= 3 /\ Before[1].id = last.id
  /\ Before[Len(Before)].id = last.ref /\ Now # Before

(***************************************************************************)
(* Progress                                                                *)
(***************************************************************************)
\* the call of goroutine g is between its invocation and its return
Called(g) == calls[g].pc # "idle"
\* the call of goroutine g waits for the mutex
Waits(g) == calls[g].pc \in {"lock", "wait"}
\* goroutine g holds the mutex
Holds(g) == g \in mutex.writers \cup mutex.readers

\* C32: every operation releases the lock it took on every return path,
\* error paths included: a goroutine that is not inside a call holds no
\* lock, and under fair scheduling every call that waits for the lock gets
\* it and returns; nothing deadlocks the store.
LockAlwaysReleased ==
  /\ [](\A g \in Goroutines : calls[g].pc \in {"idle", "reading", "lock", "wait", "done"} => ~Holds(g))
  /\ \A g \in Goroutines : Waits(g) ~> ~Called(g)

\* a call waits for the mutex that a failing call of the durable backend
\* held: that call has returned its error
LockAlwaysReleasedWitness ==
  /\ backend = "file" /\ faulted
  /\ \E g \in Goroutines : calls[g].pc = "lock" /\ calls[g].op \in Mutating
  /\ mutex = Unlocked

\* the mutations that are inside s.mutex.Lock()
Acquiring ==
  {g \in Goroutines : calls[g].op \in Mutating /\ calls[g].pc \in {"lock", "wait"}}
\* the calls of All and GetImage that are inside s.mutex.RLock()
ReadersWaiting ==
  {g \in Goroutines : calls[g].op \in {"All", "GetImage"} /\ calls[g].pc = "lock"}

\* C33: when no writer holds the mutex or is acquiring it, the RLock of All
\* or GetImage returns whichever readers are inside: readers do not wait for
\* readers, and two of them are inside at the same time.
ReadersShare ==
  (mutex.writers = {} /\ Acquiring = {})
  => \A g \in ReadersWaiting : ENABLED GoRLock(g)

\* All and GetImage of the durable backend are both between RLock and RUnlock
ReadersShareWitness ==
  /\ backend = "file"
  /\ mutex.readers = Goroutines
  /\ \E g, h \in mutex.readers :
       /\ calls[g].op = "All" /\ calls[g].pc = "read"
       /\ calls[h].op = "GetImage" /\ calls[h].pc = "read"

\* the Creates of the volatile backend that are inside ioutil.ReadAll
Reading == {g \in Goroutines : calls[g].pc = "reading"}

\* while goroutine g reads its image, goroutine h can start a call, and a
\* call of h that waits for a free mutex, no Lock waiting before it, gets it
NotInTheWay(g, h) ==
  /\ calls[h].pc = "idle" => ENABLED GoInvoke(h, "All", "", "", NoPoint)
  /\ (Waits(h) /\ mutex = Unlocked /\ Announced \subseteq {h})
       => ENABLED (GoLock(h) \/ GoRLock(h))

\* this step is the failing image read of the Create of goroutine g
ReadFailed(g) == calls[g].pc = "reading" /\ calls'[g].pc = "done"

\* C34: Create of the volatile backend reads its image before it takes the
\* write lock: a Create that is reading holds no lock and keeps no other
\* call from starting or from taking the mutex, and a Create whose read fails
\* returns an error and leaves the collection as it was.
CreateReadsBeforeLock ==
  /\ [](\A g \in Reading :
          /\ ~Holds(g)
          /\ \A h \in Goroutines \ {g} : NotInTheWay(g, h))
  /\ [][\A g \in Goroutines :
          ReadFailed(g) => /\ calls'[g].res = "error"
                           /\ mitems' = mitems /\ mnil' = mnil
                           /\ nextId' = nextId /\ mutex' = mutex]_vars

\* a Create is reading its image while the Delete of the other goroutine,
\* called on the item a Create before has appended, holds the mutex
CreateReadsBeforeLockWitness ==
  /\ backend = "memory" /\ Len(mitems) = 1
  /\ \E g \in Reading, h \in mutex.writers :
       calls[g].op = "Create" /\ calls[h].op = "Delete" /\ calls[h].pc = "store2"

\* the request was an upload: a POST outside /move/
IsUpload == http.req.method = "POST" /\ http.req.route # "move"
\* the body is multipart and its first part is the form field "file"
FirstPartIsFile == http.req.upload \in {"ok", "readError"}
\* the leading bytes of the uploaded file are those of a GIF, JPEG or PNG
SniffsToImage ==
  DetectContentType(SubSeq(http.req.img, 1, Min(SniffLen, Len(http.req.img))))
    \in validContentTypes

\* C35: an upload reaches Store.Create only when its first part is the form
\* field "file" and its leading bytes sniff to image/gif, image/jpeg or
\* image/png; every other upload is answered 415 (not multipart, or not such
\* an image) or 400 (malformed multipart, or another field name) and no
\* operation of the store is called.
UploadGate ==
  IsUpload
  => IF http.called = "Create"
     THEN FirstPartIsFile /\ SniffsToImage
     ELSE /\ NoStoreCall
          /\ http.status = IF \/ http.req.upload = "notMultipart"
                              \/ FirstPartIsFile /\ ~SniffsToImage
                           THEN 415 ELSE 400

\* the image the store holds under the ID id
StoredImage(id) ==
  IF backend = "memory" THEN MemFindImage(mitems, id, 0).image
  ELSE IF id \in DOMAIN files THEN files[id] ELSE EmptyImage

\* C36: the reader validateContentType returns yields the bytes of the
\* uploaded stream, all of them once and in order, whether the stream is
\* shorter or longer than the prefix read for sniffing: Store.Create is given
\* the uploaded bytes, and after a successful upload the store holds them.
UploadStoredIntact ==
  (IsUpload /\ http.called = "Create")
  => /\ last.img = http.req.img
     /\ http.status = 200 => StoredImage(last.id) = http.req.img

\* the durable backend has stored an upload longer than the sniffed prefix
UploadStoredIntactWitness ==
  /\ IsUpload /\ http.called = "Create" /\ http.status = 200
  /\ backend = "file"
  /\ Len(http.req.img) > SniffLen
  /\ files[last.id] = http.req.img

====
